---- MODULE Spec2Model ----
(***************************************************************************)
(* Verification model of the payment-gated write path of stableset_net:    *)
(*   - the node-side spend ledger  (safenode/src/domain/storage/spends.rs) *)
(*   - client quote selection and payment (autonomi/src/client/quote.rs,   *)
(*     autonomi/src/client/utils.rs)                                       *)
(*   - chunk upload with retries   (autonomi/src/client/data/mod.rs)       *)
(* Each component has its own specification; the variables of the other    *)
(* components stay at their initial value.                                 *)
(***************************************************************************)
EXTENDS Integers, Sequences, FiniteSets, TLC

VARIABLES
    valid_spends,       \* ledger: spend id -> file under valid_spends/
    double_spends,      \* ledger: spend id -> file under double_spends/
    last                \* ledger: the last ledger call, its inputs, result and pre-state

VARIABLES
    content_addrs,      \* pay: the addresses the call is for, in request order
    price_levels,       \* pay: the prices the market oracle answers with in this run
    fetch,              \* pay: address -> state of fetch_store_quote_with_retries
    pay_pc,             \* pay: where the call stands
    raw_quotes_per_addr,    \* pay: the joined fetch results, (address, peers) in request order
    loop_idx,           \* pay: the next entry of raw_quotes_per_addr to choose quotes for
    quotes_to_pay_per_addr, \* pay: address -> the five (peer, price) entries chosen
    last_priced,        \* pay: the (peer, price) list of the address priced last, unsorted
    pay_result,         \* pay: what pay returned
    wallet_locked,      \* pay: the wallet lock is held
    payments,           \* pay: the quote payments handed to pay_for_quotes in this call
    receipt,            \* pay: address -> (payees, price) returned by this call
    calls,              \* pay: number of pay calls started
    ever_quoted,        \* pay: addresses that had more than CLOSE_GROUP_SIZE / 2 quotes in some call
    paid_for            \* pay: addresses with an entry in some payment handed to the wallet

VARIABLES
    up_pc,              \* upload: where data_put stands
    up_receipt,         \* upload: the receipt, chunk address -> proof of payment
    chunks,             \* upload: the chunks of the current attempt
    upload_tasks,       \* upload: the tasks not yet pushed to the futures set
    futures,            \* upload: the chunks whose task is in the FuturesUnordered
    started,            \* upload: the chunks whose put is in flight
    awaiting,           \* upload: the batch runner is at futures.next().await
    results,            \* upload: the results of the current attempt, as they came in
    current_attempt,    \* upload: current_attempt
    puts,               \* upload: the records put to the network so far
    put_count,          \* upload: chunk -> number of puts issued for it
    ever_ok,            \* upload: the chunks of which a put succeeded
    task_log,           \* upload: chunk -> the outcomes of its upload tasks, in order
    in_flight,          \* upload: the puts sent and not yet answered, each with its attempt
    failed_uploads      \* upload: the chunks upload_chunks_with_retries returned as failed

VARIABLES
    payer_pc,           \* wallet: caller -> where its call of pay stands
    payer_calls,        \* wallet: caller -> number of pay calls it has started
    payer_result,       \* wallet: caller -> what its last call of pay returned
    wallet_holder       \* wallet: the caller holding the lock guard of the wallet, or NoHolder

VARIABLES
    ll_pc,              \* linked list: where linked_list_put stands
    ll_result,          \* linked list: what linked_list_put returned
    ll_puts,            \* linked list: the records this call has put to the network
    ll_stored,          \* linked list: the lists the network has stored at the address
    ll_stored_pre       \* linked list: ll_stored as it was when this call started

VARIABLES
    cn_local,           \* connect: config.local
    cn_running,         \* connect: handle_event_receiver is in its loop
    cn_sender,          \* connect: the oneshot sender is still there (Some)
    cn_unsupported,     \* connect: unsupported_protocols
    cn_now,             \* connect: seconds since the timer was armed
    cn_events,          \* connect: number of network events received
    cn_max_peers,       \* connect: the highest peers_len a PeerAdded event has reported
    cn_outcomes         \* connect: what was sent through the oneshot channel, and when

VARIABLES
    cm_mode,            \* client: Client::mode
    cm_evm_network,     \* client: Client::evm_network
    cm_events,          \* client: client events are enabled
    cm_last             \* client: the last call, its argument, result and the mode before it

VARIABLES
    nd_round,           \* node: number of pairs of concurrent spend requests so far
    nd_reqs,            \* node: the two requests in flight: spend and what the disk will do
    nd_pc,              \* node: request -> where its try_add stands
    nd_res,             \* node: request -> what its try_add returned
    nd_pre              \* node: the two directories as they were when the pair arrived

VARIABLES
    fq,                 \* fetch: address -> state of its fetch_store_quote_with_retries
    fq_log,             \* fetch: address -> what its fetch_store_quote calls returned, in order
    fq_sleeps,          \* fetch: address -> number of back-off sleeps started
    fq_result           \* fetch: address -> what fetch_store_quote_with_retries returned

VARIABLES
    rp_spawned,         \* replication: number of keys of keys_to_fetch a task is spawned for
    rp_returned,        \* replication: what fetch_replication_keys_without_wait returned
    rp_pc,              \* replication: key -> where its task stands
    rp_sent,            \* replication: key -> the requests its task has sent, in order
    rp_holder,          \* replication: key -> what the holder answered
    rp_net,             \* replication: key -> what get_record_from_network returned
    rp_record,          \* replication: key -> the record handed to store_replicated_in_record
    rp_task,            \* replication: key -> what the task returned
    rp_store            \* replication: key -> the record the local store holds

VARIABLES
    md_have,            \* missing data: the chunk addresses the asking node holds
    md_start,           \* missing data: the addresses it held when it was called
    md_held,            \* missing data: the chunk addresses the asked peer holds
    md_pc,              \* missing data: where ask_for_missing_data stands
    md_request,         \* missing data: the query sent last
    md_response,        \* missing data: the response received last
    md_rounds,          \* missing data: the queries sent, counted up to MaxAsks
    md_result           \* missing data: what ask_for_missing_data returned

VARIABLES
    se_node,            \* spend events: the spend storage of the node
    se_peer,            \* spend events: the spend storage of its close peer
    se_inbox,           \* spend events: the event on its way to the peer
    se_last             \* spend events: the handler that ran last

VARIABLES
    gs_pc,              \* get_spend: where the call stands
    gs_responses,       \* get_spend: the responses of the queried peers
    gs_result           \* get_spend: what the call returned

VARIABLES
    fr_pc,              \* fresh record: where the replication task stands
    fr_retry_count,     \* fresh record: retry_count of the task
    fr_polls,           \* fresh record: the calls of get_local_record made
    fr_found,           \* fresh record: the local store has returned the record
    fr_closest,         \* fresh record: the peers get_closest_k_value_local_peers gave
    fr_sent             \* fresh record: the peers Cmd::Replicate was sent to

ledger_vars == <<valid_spends, double_spends, last>>

pay_vars == <<content_addrs, price_levels, fetch, pay_pc, raw_quotes_per_addr, loop_idx,
              quotes_to_pay_per_addr, last_priced, pay_result, wallet_locked, payments,
              receipt, calls, ever_quoted, paid_for>>

upload_vars == <<up_pc, up_receipt, chunks, upload_tasks, futures, started, awaiting,
                 results, current_attempt, puts, put_count, ever_ok, task_log,
                 in_flight, failed_uploads>>

wallet_vars == <<payer_pc, payer_calls, payer_result, wallet_holder>>

ll_vars == <<ll_pc, ll_result, ll_puts, ll_stored, ll_stored_pre>>

cn_vars == <<cn_local, cn_running, cn_sender, cn_unsupported, cn_now, cn_events,
             cn_max_peers, cn_outcomes>>

cm_vars == <<cm_mode, cm_evm_network, cm_events, cm_last>>

nd_vars == <<nd_round, nd_reqs, nd_pc, nd_res, nd_pre>>

fq_vars == <<fq, fq_log, fq_sleeps, fq_result>>

rp_vars == <<rp_spawned, rp_returned, rp_pc, rp_sent, rp_holder, rp_net, rp_record,
             rp_task, rp_store>>

md_vars == <<md_have, md_start, md_held, md_pc, md_request, md_response, md_rounds,
             md_result>>

se_vars == <<se_node, se_peer, se_inbox, se_last>>

gs_vars == <<gs_pc, gs_responses, gs_result>>

fr_vars == <<fr_pc, fr_retry_count, fr_polls, fr_found, fr_closest, fr_sent>>

vars == <<ledger_vars, pay_vars, upload_vars, wallet_vars, ll_vars, cn_vars, cm_vars, nd_vars, fq_vars, rp_vars, md_vars, se_vars, gs_vars, fr_vars>>

----------------------------------------------------------------------------
(* Bounds *)

\* number of distinct transactions a spend of one id may point to
MaxTx == 2

----------------------------------------------------------------------------
(* Spend ledger: data *)

IDs == {"id1", "id2"}
Txs == 1..MaxTx
Sigs == {"valid", "forged"}

\* A SignedSpend: the spent id, the transaction it is spent in, its signature.
\* "id2" only ever has one spend; it serves as the foreign id.
SignedSpend ==
    {s \in [id : IDs, tx : Txs, sig : Sigs] :
        s.id = "id1" \/ (s.tx = 1 /\ s.sig = "valid")}

\* the outcomes of creating and writing a file (File::create, write_all, sync_data)
WriteOutcomes == {"ok", "fail", "partial"}
\* the outcomes of remove_file on an existing file
RemoveOutcomes == {"ok", "fail"}

\* file contents
NoFile == [kind |-> "none"]
Garbage == [kind |-> "garbage"]
SpendFile(s) == [kind |-> "spend", spend |-> s]
PairFile(a, b) == [kind |-> "pair", a |-> a, b |-> b]

\* results
Ok == [kind |-> "Ok"]
SpendNotFound(id) == [kind |-> "SpendNotFound", id |-> id]
DeserializeError == [kind |-> "DeserializeError"]
IoError == [kind |-> "Io"]
InvalidSignature == [kind |-> "InvalidSignature"]
DoubleSpendAttempt(new, existing) ==
    [kind |-> "DoubleSpendAttempt", new |-> new, existing |-> existing]
NotADoubleSpendAttempt(a, b) == [kind |-> "NotADoubleSpendAttempt", a |-> a, b |-> b]
OkSpend(s) == [kind |-> "OkSpend", spend |-> s]
OkPair(a, b) == [kind |-> "OkPair", a |-> a, b |-> b]

\* dbc_address(dbc_id): the address is a hash of the id, one address per id
dbc_address(id) == id

\* signed_spend.spend.hash(): covers the id and the transaction, not the signature
spend_hash(s) == <<s.id, s.tx>>

\* Hash::hash(&signed_spend.to_bytes()): covers the signature too
bytes_hash(s) == <<s.id, s.tx, s.sig>>

\* signed_spend.verify(..): the derived key of the id signed this spend
verify(s) == s.sig = "valid"

----------------------------------------------------------------------------
(* Spend ledger: the operations as functions of the stored files *)

\* SpendStorage::get
get(valid, address) ==
    LET f == valid[address] IN
    IF f.kind = "none" THEN SpendNotFound(address)
    ELSE IF f.kind = "garbage" THEN DeserializeError
    ELSE IF address = dbc_address(f.spend.id) THEN OkSpend(f.spend)
    ELSE SpendNotFound(address)

\* SpendStorage::try_get_double_spend
try_get_double_spend(double, address) ==
    LET f == double[address] IN
    IF f.kind = "none" THEN SpendNotFound(address)
    ELSE IF f.kind = "garbage" THEN DeserializeError
    ELSE IF address = dbc_address(f.a.id) THEN OkPair(f.a, f.b)
    ELSE SpendNotFound(address)

\* SpendStorage::is_unspendable
is_unspendable(double, id) ==
    try_get_double_spend(double, dbc_address(id)).kind = "OkPair"

\* File::create + write_all + sync_data on a path that does not exist
write_file(content, w) ==
    IF w = "ok" THEN [file |-> content, res |-> Ok]
    ELSE IF w = "partial" THEN [file |-> Garbage, res |-> IoError]
    ELSE [file |-> NoFile, res |-> IoError]

\* SpendStorage::try_store_double_spend
try_store_double_spend(double, a_spend, b_spend, w) ==
    LET addr == dbc_address(a_spend.id) IN
    IF double[addr].kind # "none"
    THEN [double |-> double, res |-> Ok]
    ELSE LET wr == write_file(PairFile(a_spend, b_spend), w) IN
         [double |-> [double EXCEPT ![addr] = wr.file], res |-> wr.res]

\* SpendStorage::remove, on the valid_spends directory
remove(valid, address, r) ==
    IF valid[address].kind = "none" \/ r = "fail"
    THEN [valid |-> valid, res |-> IoError]
    ELSE [valid |-> [valid EXCEPT ![address] = NoFile], res |-> Ok]

\* validate reporting the pair the wrong way round
validate_swapped(valid, double, signed_spend, w, r) ==
    IF is_unspendable(double, signed_spend.id)
    THEN [valid |-> valid, double |-> double, res |-> Ok]
    ELSE
        LET address == dbc_address(signed_spend.id)
            got == get(valid, address)
            tamper_attempted ==
                /\ got.kind = "OkSpend"
                /\ spend_hash(signed_spend) # spend_hash(got.spend)
        IN
        IF tamper_attempted
        THEN LET st == try_store_double_spend(double, got.spend, signed_spend, w)
                 rm == remove(valid, address, r)
             IN [valid |-> rm.valid, double |-> st.double,
                 res |-> DoubleSpendAttempt(got.spend, signed_spend)]
        ELSE IF verify(signed_spend)
        THEN [valid |-> valid, double |-> double, res |-> Ok]
        ELSE [valid |-> valid, double |-> double, res |-> InvalidSignature]

\* validate taking any stored spend for a conflict, without comparing hashes
validate_no_compare(valid, double, signed_spend, w, r) ==
    IF is_unspendable(double, signed_spend.id)
    THEN [valid |-> valid, double |-> double, res |-> Ok]
    ELSE
        LET address == dbc_address(signed_spend.id)
            got == get(valid, address)
            tamper_attempted == got.kind = "OkSpend"
        IN
        IF tamper_attempted
        THEN LET st == try_store_double_spend(double, got.spend, signed_spend, w)
                 rm == remove(valid, address, r)
             IN [valid |-> rm.valid, double |-> st.double,
                 res |-> DoubleSpendAttempt(signed_spend, got.spend)]
        ELSE IF verify(signed_spend)
        THEN [valid |-> valid, double |-> double, res |-> Ok]
        ELSE [valid |-> valid, double |-> double, res |-> InvalidSignature]

\* SpendStorage::validate
validate(valid, double, signed_spend, w, r) ==
    IF is_unspendable(double, signed_spend.id)
    THEN [valid |-> valid, double |-> double, res |-> Ok]
    ELSE
        LET address == dbc_address(signed_spend.id)
            got == get(valid, address)
            tamper_attempted ==
                /\ got.kind = "OkSpend"
                /\ spend_hash(signed_spend) # spend_hash(got.spend)
        IN
        IF tamper_attempted
        THEN LET st == try_store_double_spend(double, got.spend, signed_spend, w)
                 rm == remove(valid, address, r)
             IN [valid |-> rm.valid, double |-> st.double,
                 res |-> DoubleSpendAttempt(signed_spend, got.spend)]
        ELSE IF verify(signed_spend)
        THEN [valid |-> valid, double |-> double, res |-> Ok]
        ELSE [valid |-> valid, double |-> double, res |-> InvalidSignature]

\* SpendStorage::try_add
try_add(valid, double, signed_spend, w, r) ==
    LET v1 == validate(valid, double, signed_spend, w, r)
        addr == dbc_address(signed_spend.id)
    IN
    IF v1.res # Ok THEN v1
    ELSE IF v1.valid[addr].kind # "none"
    THEN validate(v1.valid, v1.double, signed_spend, w, r)
    ELSE LET wr == write_file(SpendFile(signed_spend), w) IN
         [valid |-> [v1.valid EXCEPT ![addr] = wr.file],
          double |-> v1.double, res |-> wr.res]

\* try_add_double taking any two spends for a double spend
try_add_double_unchecked(valid, double, a_spend, b_spend, w, r) ==
    IF is_unspendable(double, a_spend.id)
    THEN [valid |-> valid, double |-> double, res |-> Ok]
    ELSE
        LET address == dbc_address(a_spend.id)
            st == try_store_double_spend(double, a_spend, b_spend, w)
        IN
        IF st.res # Ok
        THEN [valid |-> valid, double |-> st.double, res |-> st.res]
        ELSE LET rm == remove(valid, address, r) IN
             [valid |-> rm.valid, double |-> st.double, res |-> rm.res]

\* try_add_double evicting the valid entry only when it is the first argument
try_add_double_evict_first(valid, double, a_spend, b_spend, w, r) ==
    LET different_id == a_spend.id # b_spend.id
        same_hash == bytes_hash(a_spend) = bytes_hash(b_spend)
    IN
    IF different_id \/ same_hash
    THEN [valid |-> valid, double |-> double,
          res |-> NotADoubleSpendAttempt(a_spend, b_spend)]
    ELSE IF is_unspendable(double, a_spend.id)
    THEN [valid |-> valid, double |-> double, res |-> Ok]
    ELSE
        LET address == dbc_address(a_spend.id)
            st == try_store_double_spend(double, a_spend, b_spend, w)
        IN
        IF st.res # Ok
        THEN [valid |-> valid, double |-> st.double, res |-> st.res]
        ELSE IF valid[address] # SpendFile(a_spend)
        THEN [valid |-> valid, double |-> st.double, res |-> Ok]
        ELSE LET rm == remove(valid, address, r) IN
             [valid |-> rm.valid, double |-> st.double, res |-> rm.res]

\* SpendStorage::try_add_double
try_add_double(valid, double, a_spend, b_spend, w, r) ==
    LET different_id == a_spend.id # b_spend.id
        same_hash == bytes_hash(a_spend) = bytes_hash(b_spend)
    IN
    IF different_id \/ same_hash
    THEN [valid |-> valid, double |-> double,
          res |-> NotADoubleSpendAttempt(a_spend, b_spend)]
    ELSE IF is_unspendable(double, a_spend.id)
    THEN [valid |-> valid, double |-> double, res |-> Ok]
    ELSE
        LET address == dbc_address(a_spend.id)
            st == try_store_double_spend(double, a_spend, b_spend, w)
        IN
        IF st.res # Ok
        THEN [valid |-> valid, double |-> st.double, res |-> st.res]
        ELSE LET rm == remove(valid, address, r) IN
             [valid |-> rm.valid, double |-> st.double, res |-> rm.res]

----------------------------------------------------------------------------
(* Spend ledger: state machine *)

ASpend == CHOOSE s \in SignedSpend : TRUE

\* the record kept of a call: what was called, with what, what the disk did,
\* what came back, and the two files of the id before the call
Call(op, id, a, b, w, r, res) ==
    [op |-> op, id |-> id, a |-> a, b |-> b, w |-> w, r |-> r, res |-> res,
     pre_valid |-> valid_spends[id], pre_double |-> double_spends[id]]

\* SpendStorage::new: both directories are empty
LedgerNew ==
    /\ valid_spends = [i \in IDs |-> NoFile]
    /\ double_spends = [i \in IDs |-> NoFile]
    /\ last = [op |-> "new", id |-> "id1", a |-> ASpend, b |-> ASpend,
               w |-> "ok", r |-> "ok", res |-> Ok,
               pre_valid |-> NoFile, pre_double |-> NoFile]

Get(address) ==
    /\ last' = Call("get", address, ASpend, ASpend, "ok", "ok",
                    get(valid_spends, address))
    /\ UNCHANGED <<valid_spends, double_spends>>

\* a disk fault is drawn only where the call reaches the disk and the fault
\* changes what the call does
FaultMatters(out, out_w, out_r, w, r) ==
    /\ w = "ok" \/ out # out_w
    /\ r = "ok" \/ out # out_r

TryAdd(s, w, r) ==
    LET out == try_add(valid_spends, double_spends, s, w, r) IN
    /\ FaultMatters(out, try_add(valid_spends, double_spends, s, "ok", r),
                    try_add(valid_spends, double_spends, s, w, "ok"), w, r)
    /\ valid_spends' = out.valid
    /\ double_spends' = out.double
    /\ last' = Call("try_add", s.id, s, s, w, r, out.res)

TryAddDouble(a, b, w, r) ==
    LET out == try_add_double(valid_spends, double_spends, a, b, w, r) IN
    /\ FaultMatters(out, try_add_double(valid_spends, double_spends, a, b, "ok", r),
                    try_add_double(valid_spends, double_spends, a, b, w, "ok"), w, r)
    /\ valid_spends' = out.valid
    /\ double_spends' = out.double
    /\ last' = Call("try_add_double", a.id, a, b, w, r, out.res)

----------------------------------------------------------------------------
(* Bounds of the quote and payment model *)

\* the most quotes a fetch returns for one address
MaxQuotes == 6
\* the highest price of the market oracle
MaxPrice == 3
\* the number of times pay is called
MaxCalls == 2

----------------------------------------------------------------------------
(* Quote selection and payment: data *)

CLOSE_GROUP_SIZE == 5
MINIMUM_QUOTES_TO_PAY == 5

Addrs == {"x1", "x2"}

\* the prices of the market oracle when two addresses are quoted
TwoLevels == {1, 2}

\* what one fetch_store_quote returns: a network error, or n quotes of the peers 1..n
FetchOutcomes ==
    {[ok |-> FALSE, n |-> 0]} \cup {[ok |-> TRUE, n |-> k] : k \in 0..MaxQuotes}

\* what get_market_price returns for n quoting metrics: an error, or a list of
\* prices, one per metric or one short
MarketOutcomes(n) ==
    {[ok |-> FALSE, prices |-> <<>>]} \cup
    {[ok |-> TRUE, prices |-> ps] :
        ps \in UNION {[1..m -> price_levels] : m \in {n - 1, n} \cap Nat}}

NoResult == [kind |-> "none"]
PayOk == [kind |-> "Ok"]
CouldNotGetStoreQuote(addr) == [kind |-> "CouldNotGetStoreQuote", addr |-> addr]
NotEnoughNodeQuotes(addr, got, need) ==
    [kind |-> "NotEnoughNodeQuotes", addr |-> addr, got |-> got, need |-> need]
MarketPriceError == [kind |-> "MarketPriceError"]
EvmWalletError == [kind |-> "EvmWalletError"]

RECURSIVE SumPrices(_)
\* the sum of the prices of a list of (peer, price) entries
SumPrices(entries) ==
    IF entries = <<>> THEN 0
    ELSE Head(entries).price + SumPrices(Tail(entries))

\* QuoteForAddress::price
QuoteForAddressPrice(entries) == SumPrices(entries)

RECURSIVE SumOver(_, _)
\* StoreQuote::price
SumOver(quotes, addrs) ==
    IF addrs = {} THEN 0
    ELSE LET a == CHOOSE x \in addrs : TRUE IN
         QuoteForAddressPrice(quotes[a]) + SumOver(quotes, addrs \ {a})

StoreQuotePrice(quotes) == SumOver(quotes, DOMAIN quotes)

\* StoreQuote::payments: one (quote, price) entry per chosen quote, in no order
StoreQuotePayments(quotes) ==
    UNION {{[addr |-> a, peer |-> quotes[a][i].peer, price |-> quotes[a][i].price] :
                i \in DOMAIN quotes[a]} : a \in DOMAIN quotes}

\* receipt_from_store_quotes: address -> (proof of payment with the payees, price)
receipt_from_store_quotes(quotes) ==
    [a \in DOMAIN quotes |->
        [payees |-> {quotes[a][i].peer : i \in DOMAIN quotes[a]},
         price |-> QuoteForAddressPrice(quotes[a])]]

----------------------------------------------------------------------------
(* Quote selection: the code as functions *)

\* one turn of the loop with a budget of three retries
fetch_step_three_retries(f, o) ==
    IF o.ok
    THEN IF o.n < CLOSE_GROUP_SIZE
         THEN IF f.retries + 1 > 3
              THEN [status |-> "err", retries |-> f.retries + 1, quotes |-> 0]
              ELSE [status |-> "ok", retries |-> f.retries + 1, quotes |-> o.n]
         ELSE [status |-> "ok", retries |-> f.retries, quotes |-> o.n]
    ELSE IF f.retries < 3
         THEN [status |-> "sleeping", retries |-> f.retries + 1, quotes |-> 0]
         ELSE [status |-> "err", retries |-> f.retries, quotes |-> 0]

\* one turn of the loop of fetch_store_quote_with_retries
fetch_step(f, o) ==
    IF o.ok
    THEN IF o.n < CLOSE_GROUP_SIZE
         THEN IF f.retries + 1 > 2
              THEN [status |-> "err", retries |-> f.retries + 1, quotes |-> 0]
              ELSE [status |-> "ok", retries |-> f.retries + 1, quotes |-> o.n]
         ELSE [status |-> "ok", retries |-> f.retries, quotes |-> o.n]
    ELSE IF f.retries < 2
         THEN [status |-> "sleeping", retries |-> f.retries + 1, quotes |-> 0]
         ELSE [status |-> "err", retries |-> f.retries, quotes |-> 0]

\* all_prices.into_iter().zip(raw_quotes.into_iter()): as long as the shorter
zip_prices(all_prices, peers) ==
    LET m == IF Len(all_prices) < Len(peers) THEN Len(all_prices) ELSE Len(peers) IN
    [i \in 1..m |-> [peer |-> peers[i], price |-> all_prices[i]]]

\* put e behind every entry of the sorted list whose price is not higher
insert_by_price(sorted, e) ==
    LET k == Cardinality({i \in DOMAIN sorted : sorted[i].price <= e.price}) IN
    SubSeq(sorted, 1, k) \o <<e>> \o SubSeq(sorted, k + 1, Len(sorted))

\* no sort at all
sort_by_price_unsorted(prices) == prices

RECURSIVE sort_by_price(_)
\* prices.sort_by(price_a.cmp(price_b)): a stable sort
sort_by_price(prices) ==
    IF prices = <<>> THEN <<>>
    ELSE insert_by_price(sort_by_price(SubSeq(prices, 1, Len(prices) - 1)),
                         prices[Len(prices)])

\* a match that pays what there is once three quotes are priced
choose_five_partial(content_addr, prices) ==
    IF Len(prices) >= 3
    THEN [res |-> PayOk, entries |-> SubSeq(prices, 1, IF Len(prices) < 5 THEN Len(prices) ELSE 5)]
    ELSE [res |-> NotEnoughNodeQuotes(content_addr, Len(prices), MINIMUM_QUOTES_TO_PAY),
          entries |-> <<>>]

\* the match on the sorted prices: the five entries to pay, or too few
choose_five(content_addr, prices) ==
    IF Len(prices) >= 5
    THEN [res |-> PayOk,
          entries |-> << [peer |-> prices[1].peer, price |-> 0],
                         [peer |-> prices[2].peer, price |-> 0],
                         prices[3], prices[4], prices[5] >>]
    ELSE [res |-> NotEnoughNodeQuotes(content_addr, Len(prices), MINIMUM_QUOTES_TO_PAY),
          entries |-> <<>>]

\* the body of the loop of get_store_quotes for an address that is priced
choose_quotes(content_addr, peers, all_prices) ==
    choose_five(content_addr, sort_by_price(zip_prices(all_prices, peers)))

\* the threshold one too low
already_paid_below_half(n) == n < CLOSE_GROUP_SIZE \div 2

\* an address with this many raw quotes is taken to be paid for already
already_paid(n) == n <= CLOSE_GROUP_SIZE \div 2

----------------------------------------------------------------------------
(* Quote selection and payment: state machine of Client::pay *)

NoFetch == [status |-> "pending", retries |-> 0, quotes |-> 0]
NoPriced == [addr |-> "x1", prices |-> <<>>]
EmptyMap == [a \in {} |-> <<>>]

\* the state of a call of pay that has just started its fetches
CallStarted ==
    /\ fetch = [a \in Addrs |-> NoFetch]
    /\ pay_pc = "fetching"
    /\ raw_quotes_per_addr = <<>>
    /\ loop_idx = 1
    /\ quotes_to_pay_per_addr = EmptyMap
    /\ last_priced = NoPriced
    /\ pay_result = NoResult
    /\ wallet_locked = FALSE
    /\ payments = {}
    /\ receipt = EmptyMap

PayStart(addrs, range) ==
    /\ content_addrs = addrs
    /\ price_levels = range
    /\ calls = 1
    /\ ever_quoted = {}
    /\ paid_for = {}
    /\ CallStarted

\* no pay call is made
PayIdle ==
    /\ content_addrs = <<>>
    /\ price_levels = {}
    /\ calls = 0
    /\ ever_quoted = {}
    /\ paid_for = {}
    /\ fetch = [a \in Addrs |-> NoFetch]
    /\ pay_pc = "idle"
    /\ raw_quotes_per_addr = <<>>
    /\ loop_idx = 1
    /\ quotes_to_pay_per_addr = EmptyMap
    /\ last_priced = NoPriced
    /\ pay_result = NoResult
    /\ wallet_locked = FALSE
    /\ payments = {}
    /\ receipt = EmptyMap

Requested == {content_addrs[i] : i \in DOMAIN content_addrs}

\* an error of get_store_quotes that is dropped: pay goes on to the lock
after_get_store_quotes_unchecked(res) == "wait_lock"

\* `let quotes = self.get_store_quotes(content_addrs).await?`: with an error
\* pay returns it, with the quotes it goes on to wait for the wallet lock
after_get_store_quotes(res) == IF res = PayOk THEN "wait_lock" ELSE "failed"

\* the loop of get_store_quotes has handled entry loop_idx: go on with the next
\* entry, or return the StoreQuote to pay, which then waits for the wallet lock
LoopAdvance ==
    /\ loop_idx' = loop_idx + 1
    /\ pay_pc' = IF loop_idx = Len(raw_quotes_per_addr)
                  THEN after_get_store_quotes(PayOk) ELSE "choosing"

\* a fetch_store_quote of one address answers; try_join_all returns with the
\* first error, or with all results once the last fetch has returned, and
\* the fetch futures are gone
FetchResponse(addr, o) ==
    LET f == fetch_step(fetch[addr], o)
        fetched == [fetch EXCEPT ![addr] = f]
        all_ok == \A a \in Requested : fetched[a].status = "ok"
        peers_of(a) == [i \in 1..fetched[a].quotes |-> i]
    IN
    /\ pay_pc = "fetching"
    /\ addr \in Requested
    /\ fetch[addr].status = "pending"
    /\ IF f.status = "err"
       THEN /\ pay_pc' = after_get_store_quotes(CouldNotGetStoreQuote(addr))
            /\ fetch' = fetched
            /\ pay_result' = CouldNotGetStoreQuote(addr)
            /\ UNCHANGED <<raw_quotes_per_addr, ever_quoted>>
       ELSE IF all_ok
       THEN /\ pay_pc' = "choosing"
            /\ fetch' = [a \in Addrs |-> NoFetch]
            /\ raw_quotes_per_addr' =
                 [i \in DOMAIN content_addrs |->
                    [addr |-> content_addrs[i], peers |-> peers_of(content_addrs[i])]]
            /\ ever_quoted' = ever_quoted \cup
                 {a \in Requested : 2 * fetched[a].quotes > CLOSE_GROUP_SIZE}
            /\ UNCHANGED pay_result
       ELSE /\ fetch' = fetched
            /\ UNCHANGED <<pay_pc, pay_result, raw_quotes_per_addr, ever_quoted>>
    /\ UNCHANGED <<content_addrs, price_levels, loop_idx, quotes_to_pay_per_addr,
                   last_priced, wallet_locked, payments, receipt, calls, paid_for>>

\* the sleep between two fetch attempts ends
FetchWake(addr) ==
    /\ pay_pc = "fetching"
    /\ addr \in Requested
    /\ fetch[addr].status = "sleeping"
    /\ fetch' = [fetch EXCEPT ![addr].status = "pending"]
    /\ UNCHANGED <<content_addrs, price_levels, pay_pc, raw_quotes_per_addr, loop_idx,
                   quotes_to_pay_per_addr, last_priced, pay_result, wallet_locked,
                   payments, receipt, calls, ever_quoted, paid_for>>

\* get_store_quotes, loop body: the address is taken to be paid for, `continue`
SkipAlreadyPaid ==
    /\ pay_pc = "choosing"
    /\ loop_idx <= Len(raw_quotes_per_addr)
    /\ already_paid(Len(raw_quotes_per_addr[loop_idx].peers))
    /\ LoopAdvance
    /\ UNCHANGED <<content_addrs, price_levels, fetch, raw_quotes_per_addr,
                   quotes_to_pay_per_addr, last_priced, pay_result, wallet_locked,
                   payments, receipt, calls, ever_quoted, paid_for>>

\* get_store_quotes, loop body: ask the market price, sort, choose five
PriceAndChoose(m) ==
    LET entry == raw_quotes_per_addr[loop_idx]
        chosen == choose_quotes(entry.addr, entry.peers, m.prices)
    IN
    /\ pay_pc = "choosing"
    /\ loop_idx <= Len(raw_quotes_per_addr)
    /\ ~already_paid(Len(entry.peers))
    /\ IF ~m.ok
       THEN /\ pay_pc' = after_get_store_quotes(MarketPriceError)
            /\ pay_result' = MarketPriceError
            /\ UNCHANGED <<loop_idx, quotes_to_pay_per_addr, last_priced>>
       ELSE /\ last_priced' = [addr |-> entry.addr,
                               prices |-> zip_prices(m.prices, entry.peers)]
            /\ IF chosen.res = PayOk
               THEN /\ quotes_to_pay_per_addr' =
                         [a \in DOMAIN quotes_to_pay_per_addr \cup {entry.addr} |->
                            IF a = entry.addr THEN chosen.entries
                            ELSE quotes_to_pay_per_addr[a]]
                    /\ LoopAdvance
                    /\ UNCHANGED pay_result
               ELSE /\ pay_pc' = after_get_store_quotes(chosen.res)
                    /\ pay_result' = chosen.res
                    /\ UNCHANGED <<loop_idx, quotes_to_pay_per_addr>>
    /\ UNCHANGED <<content_addrs, price_levels, fetch, raw_quotes_per_addr,
                   wallet_locked, payments, receipt, calls, ever_quoted, paid_for>>

\* a guard that is forgotten, not dropped: the lock stays as it is
drop_guard_leaked(locked) == locked

\* drop(lock_guard), or the guard leaving scope when ? returns the error
drop_guard(locked) == FALSE

\* wallet.lock().await
LockWallet ==
    /\ pay_pc = "wait_lock"
    /\ ~wallet_locked
    /\ wallet_locked' = TRUE
    /\ pay_pc' = "paying"
    /\ UNCHANGED <<content_addrs, price_levels, fetch, raw_quotes_per_addr, loop_idx,
                   quotes_to_pay_per_addr, last_priced, pay_result, payments, receipt,
                   calls, ever_quoted, paid_for>>

\* wallet.pay_for_quotes(quotes.payments()) returns; the lock guard is dropped,
\* on success the receipt is built and returned
PayForQuotes(ok) ==
    /\ pay_pc = "paying"
    /\ payments' = StoreQuotePayments(quotes_to_pay_per_addr)
    /\ paid_for' = paid_for \cup {p.addr : p \in StoreQuotePayments(quotes_to_pay_per_addr)}
    /\ wallet_locked' = drop_guard(wallet_locked)
    /\ IF ok
       THEN /\ receipt' = receipt_from_store_quotes(quotes_to_pay_per_addr)
            /\ pay_result' = PayOk
            /\ pay_pc' = "done"
       ELSE /\ pay_result' = EvmWalletError
            /\ pay_pc' = "failed"
            /\ UNCHANGED receipt
    /\ UNCHANGED <<content_addrs, price_levels, fetch, raw_quotes_per_addr, loop_idx,
                   quotes_to_pay_per_addr, last_priced, calls, ever_quoted>>

\* the caller calls pay again for the same addresses
PayAgain ==
    /\ pay_pc \in {"done", "failed"}
    /\ calls < MaxCalls
    /\ calls' = calls + 1
    /\ fetch' = [a \in Addrs |-> NoFetch]
    /\ pay_pc' = "fetching"
    /\ raw_quotes_per_addr' = <<>>
    /\ loop_idx' = 1
    /\ quotes_to_pay_per_addr' = EmptyMap
    /\ last_priced' = NoPriced
    /\ pay_result' = NoResult
    /\ wallet_locked' = FALSE
    /\ payments' = {}
    /\ receipt' = EmptyMap
    /\ UNCHANGED <<content_addrs, price_levels, ever_quoted, paid_for>>

NextPay ==
    \/ \E addr \in Addrs, o \in FetchOutcomes : FetchResponse(addr, o)
    \/ \E addr \in Addrs : FetchWake(addr)
    \/ SkipAlreadyPaid
    \/ /\ pay_pc = "choosing"
       /\ \E m \in MarketOutcomes(Len(raw_quotes_per_addr[loop_idx].peers)) :
             PriceAndChoose(m)
    \/ LockWallet
    \/ \E ok \in BOOLEAN : PayForQuotes(ok)
    \/ PayAgain

----------------------------------------------------------------------------
(* Bounds of the upload model *)

\* the number of chunks data_put uploads
NumChunks == 3
\* CHUNK_UPLOAD_BATCH_SIZE, set by the environment
BatchSize == 2

----------------------------------------------------------------------------
(* Chunk upload: data *)

RETRY_ATTEMPTS == 3

\* a chunk is named by its address
Chunks == 1..NumChunks

AllPeers == {"p1", "p2", "p3"}

\* the payees a proof of payment may name
PayeeSets == {{}, {"p1", "p2"}}

\* the receipts pay_for_content_addrs may return: a proof for some of the chunks
Receipts ==
    UNION {[S -> [payees : PayeeSets]] : S \in SUBSET Chunks}

\* ProofOfPayment::payees
payees(proof) == proof.payees

\* a put that may go to any peer, use_put_record_to: None
put_record_cfg_anywhere(proof) == [use_put_record_to |-> AllPeers]

\* the PutRecordCfg of chunk_upload_with_payment
put_record_cfg(proof) == [use_put_record_to |-> payees(proof)]

\* receipt.get(chunk.name()): the proof of the chunk, if the receipt has one
receipt_get(rcpt, name) ==
    IF name \in DOMAIN rcpt
    THEN [some |-> TRUE, proof |-> rcpt[name]]
    ELSE [some |-> FALSE, proof |-> [payees |-> {}]]

\* a task for every chunk, with or without a proof
upload_tasks_for_every_chunk(cs, rcpt) == cs

\* the chunks a new attempt makes a task for: those with a proof in the receipt
upload_tasks_for(cs, rcpt) == SelectSeq(cs, LAMBDA c : receipt_get(rcpt, c).some)

\* what an upload task returns
TaskOk == "Ok"
PayeesMissing == "PayeesMissing"
NetworkError == "Network"

\* every result is taken for a failure
uploads_failed_all(res) ==
    [i \in DOMAIN res |-> [chunk |-> res[i].chunk, err |-> res[i].res]]

\* only the first failure is kept
uploads_failed_first(res) ==
    LET failed == SelectSeq(res, LAMBDA u : u.res # TaskOk) IN
    [i \in DOMAIN failed \cap {1} |-> [chunk |-> failed[i].chunk, err |-> failed[i].res]]

\* uploads.into_iter().filter_map(|up| up.err()): the (chunk, error) of the
\* failed results, in the order the results came in
uploads_failed(res) ==
    LET failed == SelectSeq(res, LAMBDA u : u.res # TaskOk) IN
    [i \in DOMAIN failed |-> [chunk |-> failed[i].chunk, err |-> failed[i].res]]

\* uploads_failed.into_iter().map(|(chunk, _)| chunk): the chunks to retry
chunks_of(failed) == [i \in DOMAIN failed |-> failed[i].chunk]

\* the test that sees the set full one future late
batch_full_late(len, batch_size) == len > batch_size

\* process_tasks_with_max_concurrency: `futures.len() >= batch_size`
batch_full(len, batch_size) == len >= batch_size

\* a batch taken to be over once every task is pushed
batch_drained_early(tasks, futs) == tasks = <<>>

\* process_tasks_with_max_concurrency returns: the for loop has pushed every
\* task and `while let Some(result) = futures.next().await` has ended
batch_drained(tasks, futs) == tasks = <<>> /\ futs = {}

\* the retry budget reached one attempt early
max_retries_reached_early(attempt) == attempt >= RETRY_ATTEMPTS

\* `current_attempt > RETRY_ATTEMPTS`
max_retries_reached(attempt) == attempt > RETRY_ATTEMPTS

----------------------------------------------------------------------------
(* Chunk upload: state machine of data_put and upload_chunks_with_retries *)

\* data_put has encrypted the data and is about to pay for the chunks
DataPutStart ==
    /\ up_pc = "paying"
    /\ up_receipt = [c \in {} |-> [payees |-> {}]]
    /\ chunks = [i \in 1..NumChunks |-> i]
    /\ upload_tasks = <<>>
    /\ futures = {}
    /\ started = {}
    /\ awaiting = FALSE
    /\ results = <<>>
    /\ current_attempt = 1
    /\ puts = {}
    /\ put_count = [c \in Chunks |-> 0]
    /\ ever_ok = {}
    /\ task_log = [c \in Chunks |-> <<>>]
    /\ in_flight = {}
    /\ failed_uploads = <<>>

\* no data_put is made
UploadIdle ==
    /\ up_pc = "idle"
    /\ up_receipt = [c \in {} |-> [payees |-> {}]]
    /\ chunks = <<>>
    /\ upload_tasks = <<>>
    /\ futures = {}
    /\ started = {}
    /\ awaiting = FALSE
    /\ results = <<>>
    /\ current_attempt = 1
    /\ puts = {}
    /\ put_count = [c \in Chunks |-> 0]
    /\ ever_ok = {}
    /\ task_log = [c \in Chunks |-> <<>>]
    /\ in_flight = {}
    /\ failed_uploads = <<>>

\* upload_chunks_with_retries starts an attempt over the chunks cs: it makes
\* the tasks and enters process_tasks_with_max_concurrency; without a task the
\* attempt is over at once with nothing failed, and the call returns
StartAttempt(cs, attempt) ==
    LET tasks == upload_tasks_for(cs, up_receipt') IN
    /\ chunks' = cs
    /\ current_attempt' = attempt
    /\ results' = <<>>
    /\ futures' = {}
    /\ started' = {}
    /\ awaiting' = FALSE
    /\ upload_tasks' = tasks
    /\ IF tasks = <<>>
       THEN up_pc' = "done" /\ failed_uploads' = <<>>
       ELSE up_pc' = "uploading" /\ UNCHANGED failed_uploads

\* pay_for_content_addrs fails: data_put returns the error
PayForContentAddrsFails ==
    /\ up_pc = "paying"
    /\ up_pc' = "pay_failed"
    /\ UNCHANGED <<up_receipt, chunks, upload_tasks, futures, started, awaiting,
                   results, current_attempt, puts, put_count, ever_ok, task_log,
                   in_flight, failed_uploads>>

\* pay_for_content_addrs returns a receipt: the upload starts
PayForContentAddrsOk(rcpt) ==
    /\ up_pc = "paying"
    /\ up_receipt' = rcpt
    /\ StartAttempt(chunks, 1)
    /\ UNCHANGED <<puts, put_count, ever_ok, task_log, in_flight>>

\* process_tasks_with_max_concurrency: futures.push(task); with batch_size
\* futures in the set, or no task left, it goes on to futures.next().await
PushTask ==
    /\ up_pc = "uploading"
    /\ ~awaiting
    /\ upload_tasks # <<>>
    /\ futures' = futures \cup {Head(upload_tasks)}
    /\ upload_tasks' = Tail(upload_tasks)
    /\ awaiting' = (batch_full(Cardinality(futures'), BatchSize) \/ upload_tasks' = <<>>)
    /\ UNCHANGED <<up_pc, up_receipt, chunks, started, results, current_attempt,
                   puts, put_count, ever_ok, task_log, in_flight, failed_uploads>>

\* the outcome of a task comes out of futures.next().await: it is pushed to
\* results; then the for loop pushes on, or the set is drained, or the batch
\* is over: the failed uploads are returned, or retried in a new attempt
TaskDone(c, r) ==
    LET res == Append(results, [chunk |-> c, res |-> r])
        failed == uploads_failed(res)
    IN
    /\ UNCHANGED up_receipt
    /\ task_log' = [task_log EXCEPT ![c] = Append(@, r)]
    /\ IF ~batch_drained(upload_tasks, futures \ {c})
       THEN /\ results' = res
            /\ futures' = futures \ {c}
            /\ started' = started \ {c}
            /\ awaiting' = (upload_tasks = <<>>)
            /\ UNCHANGED <<up_pc, chunks, upload_tasks, current_attempt, failed_uploads>>
       ELSE IF failed = <<>>
       THEN /\ up_pc' = "done"
            /\ failed_uploads' = <<>>
            /\ results' = res
            /\ futures' = {}
            /\ started' = {}
            /\ awaiting' = FALSE
            /\ UNCHANGED <<chunks, upload_tasks, current_attempt>>
       ELSE IF max_retries_reached(current_attempt)
       THEN /\ up_pc' = "done"
            /\ failed_uploads' = failed
            /\ results' = res
            /\ futures' = {}
            /\ started' = {}
            /\ awaiting' = FALSE
            /\ UNCHANGED <<chunks, upload_tasks, current_attempt>>
       ELSE StartAttempt(chunks_of(failed), current_attempt + 1)

\* chunk_upload_with_payment, first poll: without payees it returns
\* PayeesMissing at once, else it puts the record with the proof to the payees
StartPut(c) ==
    LET proof == receipt_get(up_receipt, c).proof IN
    /\ up_pc = "uploading"
    /\ awaiting
    /\ c \in futures \ started
    /\ IF payees(proof) = {}
       THEN /\ TaskDone(c, PayeesMissing)
            /\ UNCHANGED <<puts, put_count, ever_ok, in_flight>>
       ELSE /\ started' = started \cup {c}
            /\ in_flight' = in_flight \cup {[chunk |-> c, attempt |-> current_attempt]}
            /\ puts' = puts \cup
                 {[addr |-> c, proof |-> proof,
                   targets |-> put_record_cfg(proof).use_put_record_to]}
            /\ put_count' = [put_count EXCEPT ![c] = @ + 1]
            /\ UNCHANGED <<up_pc, up_receipt, chunks, upload_tasks, futures, awaiting,
                   results, current_attempt, ever_ok, task_log, failed_uploads>>

\* network.put_record returns for a chunk
CompletePut(c, ok) ==
    /\ up_pc = "uploading"
    /\ awaiting
    /\ c \in started
    /\ ever_ok' = IF ok THEN ever_ok \cup {c} ELSE ever_ok
    /\ in_flight' = {p \in in_flight : p.chunk # c}
    /\ TaskDone(c, IF ok THEN TaskOk ELSE NetworkError)
    /\ UNCHANGED <<puts, put_count>>

NextUpload ==
    \/ PayForContentAddrsFails
    \/ \E rcpt \in Receipts : PayForContentAddrsOk(rcpt)
    \/ PushTask
    \/ \E c \in Chunks : StartPut(c)
    \/ \E c \in Chunks, ok \in BOOLEAN : CompletePut(c, ok)

----------------------------------------------------------------------------
(* data_put with the payment made by Client::pay *)

\* Chunk::name of the two chunks of the data
chunk_name(c) == IF c = 1 THEN "x1" ELSE "x2"

\* the receipt of pay, looked up by the chunks of the data
receipt_of_chunks(rcpt) ==
    [c \in {d \in {1, 2} : chunk_name(d) \in DOMAIN rcpt} |->
        [payees |-> rcpt[chunk_name(c)].payees]]

\* data_put has encrypted the data to two chunks and calls pay for their names
DataPutCallsPay ==
    /\ up_pc = "paying"
    /\ up_receipt = [c \in {} |-> [payees |-> {}]]
    /\ chunks = <<1, 2>>
    /\ upload_tasks = <<>>
    /\ futures = {}
    /\ started = {}
    /\ awaiting = FALSE
    /\ results = <<>>
    /\ current_attempt = 1
    /\ puts = {}
    /\ put_count = [c \in Chunks |-> 0]
    /\ ever_ok = {}
    /\ task_log = [c \in Chunks |-> <<>>]
    /\ in_flight = {}
    /\ failed_uploads = <<>>

\* pay returned an error: inspect_err logs it and `?` returns it
DataPutPayFails ==
    /\ pay_pc = "failed"
    /\ PayForContentAddrsFails
    /\ UNCHANGED pay_vars

\* pay returned the receipt: upload_chunks_with_retries starts
DataPutPaid ==
    /\ pay_pc = "done"
    /\ PayForContentAddrsOk(receipt_of_chunks(receipt))
    /\ UNCHANGED pay_vars

NextStore ==
    \/ /\ \/ \E addr \in Addrs, o \in FetchOutcomes : FetchResponse(addr, o)
          \/ \E addr \in Addrs : FetchWake(addr)
          \/ SkipAlreadyPaid
          \/ /\ pay_pc = "choosing"
             /\ \E m \in MarketOutcomes(Len(raw_quotes_per_addr[loop_idx].peers)) :
                   PriceAndChoose(m)
          \/ LockWallet
          \/ \E ok \in BOOLEAN : PayForQuotes(ok)
       /\ UNCHANGED upload_vars
    \/ DataPutPayFails
    \/ DataPutPaid
    \/ /\ \/ PushTask
          \/ \E c \in Chunks : StartPut(c)
          \/ \E c \in Chunks, ok \in BOOLEAN : CompletePut(c, ok)
       /\ UNCHANGED pay_vars

----------------------------------------------------------------------------
(* Bounds of the model of concurrent payments *)

\* the number of tasks that call pay with the same wallet
NumPayers == 3

----------------------------------------------------------------------------
(* Concurrent calls of Client::pay on one wallet *)

Payers == 1..NumPayers

NoHolder == 0

\* pay going from the quotes straight to the payment, without the lock
pay_next_no_lock(pc, ok) ==
    IF pc = "quoting" THEN (IF ok THEN "paying" ELSE "failed")
    ELSE IF pc = "wait_lock" THEN "paying"
    ELSE IF pc = "paying" THEN (IF ok THEN "done" ELSE "failed")
    ELSE pc

\* the order of the steps of Client::pay: get_store_quotes(..)?, then
\* wallet.lock().await, then pay_for_quotes(..)?, then Ok(receipt)
pay_next(pc, ok) ==
    IF pc = "quoting" THEN (IF ok THEN "wait_lock" ELSE "failed")
    ELSE IF pc = "wait_lock" THEN "paying"
    ELSE IF pc = "paying" THEN (IF ok THEN "done" ELSE "failed")
    ELSE pc

\* wallet.lock(): the guard is handed out when no other guard is alive
lock_is_free(holder) == holder = NoHolder

\* a guard that outlives a failed payment
guard_after_payment_kept_on_error(holder, p, ok) ==
    IF holder = p /\ ok THEN NoHolder ELSE holder

\* the lock guard of caller p once pay_for_quotes has returned: dropped by
\* drop(lock_guard), or with the scope when `?` returns the error
guard_after_payment(holder, p, ok) ==
    IF holder = p THEN NoHolder ELSE holder

\* no task has called pay
WalletIdle ==
    /\ payer_pc = [p \in Payers |-> "idle"]
    /\ payer_calls = [p \in Payers |-> 0]
    /\ payer_result = [p \in Payers |-> NoResult]
    /\ wallet_holder = NoHolder

\* a task calls pay and starts get_store_quotes
PayerCalls(p) ==
    /\ payer_pc[p] \in {"idle", "done", "failed"}
    /\ payer_calls[p] < MaxCalls
    /\ payer_calls' = [payer_calls EXCEPT ![p] = @ + 1]
    /\ payer_pc' = [payer_pc EXCEPT ![p] = "quoting"]
    /\ payer_result' = [payer_result EXCEPT ![p] = NoResult]
    /\ UNCHANGED wallet_holder

\* get_store_quotes returns, with quotes or with an error
PayerQuoted(p, ok) ==
    /\ payer_pc[p] = "quoting"
    /\ payer_pc' = [payer_pc EXCEPT ![p] = pay_next("quoting", ok)]
    /\ payer_result' = [payer_result EXCEPT ![p] = IF ok THEN NoResult ELSE MarketPriceError]
    /\ UNCHANGED <<payer_calls, wallet_holder>>

\* wallet.lock().await returns the guard
PayerLocks(p) ==
    /\ payer_pc[p] = "wait_lock"
    /\ lock_is_free(wallet_holder)
    /\ wallet_holder' = p
    /\ payer_pc' = [payer_pc EXCEPT ![p] = pay_next("wait_lock", TRUE)]
    /\ UNCHANGED <<payer_calls, payer_result>>

\* pay_for_quotes returns: on an error the guard is dropped with the return,
\* else by drop(lock_guard)
PayerPaid(p, ok) ==
    /\ payer_pc[p] = "paying"
    /\ wallet_holder' = guard_after_payment(wallet_holder, p, ok)
    /\ payer_pc' = [payer_pc EXCEPT ![p] = pay_next("paying", ok)]
    /\ payer_result' = [payer_result EXCEPT ![p] = IF ok THEN PayOk ELSE EvmWalletError]
    /\ UNCHANGED payer_calls

NextPayers ==
    \/ \E p \in Payers : PayerCalls(p)
    \/ \E p \in Payers, ok \in BOOLEAN : PayerQuoted(p, ok)
    \/ \E p \in Payers : PayerLocks(p)
    \/ \E p \in Payers, ok \in BOOLEAN : PayerPaid(p, ok)

----------------------------------------------------------------------------
(* Client::linked_list_put *)

LinkedListAlreadyExists(address) == [kind |-> "LinkedListAlreadyExists", addr |-> address]
LinkedListPayError(err) == [kind |-> "Pay", err |-> err]
LinkedListNetworkError == [kind |-> "Network"]

\* a put for an address without proof, sent to nobody in particular
put_or_exists_unpaid(payment_proofs, address, list) ==
    IF address \in DOMAIN payment_proofs
    THEN [res |-> NoResult,
          puts |-> {[addr |-> address, list |-> list,
                     targets |-> payees(payment_proofs[address])]}]
    ELSE [res |-> NoResult,
          puts |-> {[addr |-> address, list |-> list, targets |-> {}]}]

\* `match payment_proofs.get(xor_name)`: the record to put to the payees of
\* the proof, or LinkedListAlreadyExists for an address without proof
put_or_exists(payment_proofs, address, list) ==
    IF address \in DOMAIN payment_proofs
    THEN [res |-> NoResult,
          puts |-> {[addr |-> address, list |-> list,
                     targets |-> payees(payment_proofs[address])]}]
    ELSE [res |-> LinkedListAlreadyExists(address), puts |-> {}]

\* the address of the linked list: the one address pay is called for
LinkedListAddress == content_addrs[1]

\* no linked_list_put is made
LinkedListIdle ==
    /\ ll_pc = "idle"
    /\ ll_result = NoResult
    /\ ll_puts = {}
    /\ ll_stored = <<>>
    /\ ll_stored_pre = <<>>

\* linked_list_put is called on an empty address and calls pay
LinkedListPutStart ==
    /\ ll_pc = "paying"
    /\ ll_result = NoResult
    /\ ll_puts = {}
    /\ ll_stored = <<>>
    /\ ll_stored_pre = <<>>

\* pay returned an error: `?` returns it
LinkedListPayFails ==
    /\ ll_pc = "paying"
    /\ pay_pc = "failed"
    /\ ll_pc' = "failed"
    /\ ll_result' = LinkedListPayError(pay_result)
    /\ UNCHANGED <<ll_puts, ll_stored, ll_stored_pre, pay_vars>>

\* pay returned the receipt: without proof for the address the call returns
\* LinkedListAlreadyExists, else it puts the record
LinkedListAfterPay ==
    LET next == put_or_exists(receipt, LinkedListAddress, calls) IN
    /\ ll_pc = "paying"
    /\ pay_pc = "done"
    /\ ll_puts' = next.puts
    /\ ll_result' = next.res
    /\ ll_pc' = IF next.puts = {} THEN "failed" ELSE "putting"
    /\ UNCHANGED <<ll_stored, ll_stored_pre, pay_vars>>

\* network.put_record returns; a put that reports an error may have
\* reached some node all the same
LinkedListPutReturns(ok, reached) ==
    /\ ll_pc = "putting"
    /\ ok => reached
    /\ ll_stored' = IF reached THEN Append(ll_stored, calls) ELSE ll_stored
    /\ ll_pc' = IF ok THEN "done" ELSE "failed"
    /\ ll_result' = IF ok THEN Ok ELSE LinkedListNetworkError
    /\ UNCHANGED <<ll_puts, ll_stored_pre, pay_vars>>

\* linked_list_put is called again, with another list for the same address
LinkedListPutAgain ==
    /\ ll_pc \in {"done", "failed"}
    /\ PayAgain
    /\ ll_pc' = "paying"
    /\ ll_result' = NoResult
    /\ ll_puts' = {}
    /\ ll_stored_pre' = ll_stored
    /\ UNCHANGED ll_stored

NextLinkedList ==
    \/ /\ \/ \E addr \in Addrs, o \in FetchOutcomes : FetchResponse(addr, o)
          \/ \E addr \in Addrs : FetchWake(addr)
          \/ SkipAlreadyPaid
          \/ /\ pay_pc = "choosing"
             /\ \E m \in MarketOutcomes(Len(raw_quotes_per_addr[loop_idx].peers)) :
                   PriceAndChoose(m)
          \/ LockWallet
          \/ \E ok \in BOOLEAN : PayForQuotes(ok)
       /\ UNCHANGED ll_vars
    \/ LinkedListPayFails
    \/ LinkedListAfterPay
    \/ \E ok, reached \in BOOLEAN : LinkedListPutReturns(ok, reached)
    \/ LinkedListPutAgain

----------------------------------------------------------------------------
(* Bounds of the connect model *)

\* the number of network events the handler receives
MaxEvents == 3
\* the highest peers_len of a PeerAdded event
MaxPeers == 6

----------------------------------------------------------------------------
(* Connect: handle_event_receiver *)

CONNECT_TIMEOUT_SECS == 10

Protocols == {"pa", "pb"}

ConnectOk == [kind |-> "Ok"]
TimedOut == [kind |-> "TimedOut"]
TimedOutWithIncompatibleProtocol(protocols) ==
    [kind |-> "TimedOutWithIncompatibleProtocol", protocols |-> protocols]

\* one peer is enough whatever the mode
required_peers_one(local) == 1

\* `if config.local { 1 } else { CLOSE_GROUP_SIZE }`
required_peers(local) == IF local THEN 1 ELSE CLOSE_GROUP_SIZE

\* the error sent when the timer ticks
timeout_error(unsupported_protocols) ==
    IF Len(unsupported_protocols) > 1
    THEN TimedOutWithIncompatibleProtocol(
            {unsupported_protocols[i] : i \in DOMAIN unsupported_protocols})
    ELSE TimedOut

\* no connect is made
ConnectIdle ==
    /\ cn_local = FALSE
    /\ cn_running = FALSE
    /\ cn_sender = FALSE
    /\ cn_unsupported = <<>>
    /\ cn_now = 0
    /\ cn_events = 0
    /\ cn_max_peers = 0
    /\ cn_outcomes = <<>>

\* handle_event_receiver has armed the timer and enters its loop
ConnectStart ==
    /\ cn_local \in BOOLEAN
    /\ cn_running = TRUE
    /\ cn_sender = TRUE
    /\ cn_unsupported = <<>>
    /\ cn_now = 0
    /\ cn_events = 0
    /\ cn_max_peers = 0
    /\ cn_outcomes = <<>>

\* a second passes; the timer is due after CONNECT_TIMEOUT_SECS
ClockAdvance ==
    /\ cn_running
    /\ cn_now < CONNECT_TIMEOUT_SECS
    /\ cn_now' = cn_now + 1
    /\ UNCHANGED <<cn_local, cn_running, cn_sender, cn_unsupported, cn_events,
                   cn_max_peers, cn_outcomes>>

\* select!: timeout_timer.tick()
TimerFires ==
    /\ cn_running
    /\ cn_now = CONNECT_TIMEOUT_SECS
    /\ IF cn_sender
       THEN /\ cn_outcomes' = Append(cn_outcomes,
                                    [res |-> timeout_error(cn_unsupported), at |-> cn_now])
            /\ cn_sender' = FALSE
       ELSE UNCHANGED <<cn_outcomes, cn_sender>>
    /\ cn_running' = FALSE
    /\ UNCHANGED <<cn_local, cn_unsupported, cn_now, cn_events, cn_max_peers>>

\* select!: event_receiver.recv() returns NetworkEvent::PeerAdded
RecvPeerAdded(peers_len) ==
    /\ cn_running
    /\ cn_events < MaxEvents
    /\ cn_events' = cn_events + 1
    /\ cn_max_peers' = IF peers_len > cn_max_peers THEN peers_len ELSE cn_max_peers
    /\ IF peers_len >= required_peers(cn_local) /\ cn_sender
       THEN /\ cn_outcomes' = Append(cn_outcomes, [res |-> ConnectOk, at |-> cn_now])
            /\ cn_sender' = FALSE
            /\ cn_running' = FALSE
       ELSE UNCHANGED <<cn_outcomes, cn_sender, cn_running>>
    /\ UNCHANGED <<cn_local, cn_unsupported, cn_now>>

\* select!: event_receiver.recv() returns NetworkEvent::PeerWithUnsupportedProtocol
RecvUnsupportedProtocol(their_protocol) ==
    /\ cn_running
    /\ cn_events < MaxEvents
    /\ cn_events' = cn_events + 1
    /\ cn_unsupported' = IF cn_sender THEN Append(cn_unsupported, their_protocol)
                         ELSE cn_unsupported
    /\ UNCHANGED <<cn_local, cn_running, cn_sender, cn_now, cn_max_peers, cn_outcomes>>

\* select!: event_receiver.recv() returns any other event
RecvOther ==
    /\ cn_running
    /\ cn_events < MaxEvents
    /\ cn_events' = cn_events + 1
    /\ UNCHANGED <<cn_local, cn_running, cn_sender, cn_unsupported, cn_now,
                   cn_max_peers, cn_outcomes>>

NextConnect ==
    \/ ClockAdvance
    \/ TimerFires
    \/ \E peers_len \in 1..MaxPeers : RecvPeerAdded(peers_len)
    \/ \E their_protocol \in Protocols : RecvUnsupportedProtocol(their_protocol)
    \/ RecvOther

----------------------------------------------------------------------------
(* Bounds of the client mode model *)

\* the number of wallets a client may be given
NumWallets == 3

----------------------------------------------------------------------------
(* Client mode *)

Wallets == 1..NumWallets
EvmNetworks == {"default", "custom"}

ReadOnly == [kind |-> "ReadOnly", wallet |-> 0]
ReadWrite(w) == [kind |-> "ReadWrite", wallet |-> w]

NoWallet == [kind |-> "NoWallet"]
AlreadyReadWrite == [kind |-> "Client is already in read-write mode"]
None == [some |-> FALSE, wallet |-> 0]
Some(w) == [some |-> TRUE, wallet |-> w]

\* Client::wallet
wallet(mode) == IF mode.kind = "ReadWrite" THEN Some(mode.wallet) ELSE None

\* Client::can_write
can_write(mode) == mode.kind = "ReadWrite"

\* Client::check_write_access
check_write_access(mode) == IF wallet(mode) = None THEN NoWallet ELSE Ok

\* an upgrade that takes the new wallet whatever the mode
upgrade_overwrite(mode, w) == [mode |-> ReadWrite(w), res |-> Ok]

\* Client::upgrade_to_read_write
upgrade_to_read_write(mode, w) ==
    IF mode.kind = "ReadOnly"
    THEN [mode |-> ReadWrite(w), res |-> Ok]
    ELSE [mode |-> mode, res |-> AlreadyReadWrite]

\* data_put_public: `match &self.mode`, a read-only client gets NoWallet and
\* nothing is paid or uploaded
data_put_public(mode, upload_res) ==
    IF mode.kind = "ReadWrite" THEN upload_res ELSE NoWallet

ClientCall(op, w, res) == [op |-> op, arg |-> w, res |-> res, pre_mode |-> cm_mode]

\* no client is made
ClientIdle ==
    /\ cm_mode = ReadOnly
    /\ cm_evm_network = "default"
    /\ cm_events = FALSE
    /\ cm_last = [op |-> "none", arg |-> 0, res |-> Ok, pre_mode |-> ReadOnly]

\* Client::init_read_only, or Client::init_with_wallet
ClientInit ==
    /\ cm_mode \in {ReadOnly} \cup {ReadWrite(w) : w \in Wallets}
    /\ cm_evm_network = "default"
    /\ cm_events = FALSE
    /\ cm_last = [op |-> "init", arg |-> cm_mode.wallet, res |-> Ok, pre_mode |-> cm_mode]

UpgradeToReadWrite(w) ==
    LET out == upgrade_to_read_write(cm_mode, w) IN
    /\ cm_mode' = out.mode
    /\ cm_last' = ClientCall("upgrade_to_read_write", w, out.res)
    /\ UNCHANGED <<cm_evm_network, cm_events>>

CheckWriteAccess ==
    /\ cm_last' = ClientCall("check_write_access", 0, check_write_access(cm_mode))
    /\ UNCHANGED <<cm_mode, cm_evm_network, cm_events>>

\* Client::set_evm_network
SetEvmNetwork(n) ==
    /\ cm_evm_network' = n
    /\ cm_last' = ClientCall("set_evm_network", 0, Ok)
    /\ UNCHANGED <<cm_mode, cm_events>>

\* Client::enable_client_events
EnableClientEvents ==
    /\ cm_events' = TRUE
    /\ cm_last' = ClientCall("enable_client_events", 0, Ok)
    /\ UNCHANGED <<cm_mode, cm_evm_network>>

\* Client::data_put_public; with a wallet the payment and the upload end well
\* or with an error of the payment or of the last failed chunk
DataPutPublic(upload_res) ==
    /\ cm_last' = ClientCall("data_put_public", 0, data_put_public(cm_mode, upload_res))
    /\ UNCHANGED <<cm_mode, cm_evm_network, cm_events>>

NextClient ==
    \/ \E r \in {Ok, [kind |-> "Payment"], [kind |-> "Network"]} : DataPutPublic(r)
    \/ \E w \in Wallets : UpgradeToReadWrite(w)
    \/ CheckWriteAccess
    \/ \E n \in EvmNetworks : SetEvmNetwork(n)
    \/ EnableClientEvents

----------------------------------------------------------------------------
(* Bounds of the model of concurrent spend requests *)

\* the number of pairs of concurrent requests a node receives
MaxRounds == 2

----------------------------------------------------------------------------
(* One node, two spend requests at a time *)

Reqs == {1, 2}

\* two requests for the same id with spends of different content
ConflictingRequests ==
    {q \in [Reqs -> [spend : {x \in SignedSpend : x.id = "id1"},
                     w : WriteOutcomes, r : RemoveOutcomes]] :
        spend_hash(q[1].spend) # spend_hash(q[2].spend)}

NoRequests ==
    [i \in Reqs |-> [spend |-> ASpend, w |-> "ok", r |-> "ok"]]

\* a shared borrow: a call may start whatever the other one is doing
borrow_free_shared(pcs, i) == TRUE

\* try_add(&mut self): the storage is borrowed exclusively for the whole
\* call, and the node handles one network event at a time
borrow_free(pcs, i) == \A j \in Reqs \ {i} : pcs[j] # "store"

\* the node has no spend request
NodeIdle ==
    /\ nd_round = 0
    /\ nd_reqs = NoRequests
    /\ nd_pc = [i \in Reqs |-> "done"]
    /\ nd_res = [i \in Reqs |-> Ok]
    /\ nd_pre = [valid |-> [i \in IDs |-> NoFile], double |-> [i \in IDs |-> NoFile]]

\* two conflicting spend requests have arrived at a new node
NodeStart ==
    /\ nd_round = 1
    /\ nd_reqs \in ConflictingRequests
    /\ nd_pc = [i \in Reqs |-> "pending"]
    /\ nd_res = [i \in Reqs |-> Ok]
    /\ nd_pre = [valid |-> [i \in IDs |-> NoFile], double |-> [i \in IDs |-> NoFile]]

\* try_add, first part: self.validate(signed_spend).await?
TryAddValidate(i) ==
    LET q == nd_reqs[i]
        v == validate(valid_spends, double_spends, q.spend, q.w, q.r)
    IN
    /\ nd_pc[i] = "pending"
    /\ borrow_free(nd_pc, i)
    /\ valid_spends' = v.valid
    /\ double_spends' = v.double
    /\ IF v.res # Ok
       THEN /\ nd_pc' = [nd_pc EXCEPT ![i] = "done"]
            /\ nd_res' = [nd_res EXCEPT ![i] = v.res]
       ELSE /\ nd_pc' = [nd_pc EXCEPT ![i] = "store"]
            /\ UNCHANGED nd_res
    /\ UNCHANGED <<nd_round, nd_reqs, nd_pre, last>>

\* try_add, second part: the exists check, then validate again or the write
TryAddStore(i) ==
    LET q == nd_reqs[i]
        addr == dbc_address(q.spend.id)
        v == validate(valid_spends, double_spends, q.spend, q.w, q.r)
        wr == write_file(SpendFile(q.spend), q.w)
    IN
    /\ nd_pc[i] = "store"
    /\ IF valid_spends[addr].kind # "none"
       THEN /\ valid_spends' = v.valid
            /\ double_spends' = v.double
            /\ nd_res' = [nd_res EXCEPT ![i] = v.res]
       ELSE /\ valid_spends' = [valid_spends EXCEPT ![addr] = wr.file]
            /\ UNCHANGED double_spends
            /\ nd_res' = [nd_res EXCEPT ![i] = wr.res]
    /\ nd_pc' = [nd_pc EXCEPT ![i] = "done"]
    /\ UNCHANGED <<nd_round, nd_reqs, nd_pre, last>>

\* both requests are answered; two more conflicting requests arrive
NextRequests(q) ==
    /\ \A i \in Reqs : nd_pc[i] = "done"
    /\ nd_round < MaxRounds
    /\ nd_round' = nd_round + 1
    /\ nd_reqs' = q
    /\ nd_pc' = [i \in Reqs |-> "pending"]
    /\ nd_res' = [i \in Reqs |-> Ok]
    /\ nd_pre' = [valid |-> valid_spends, double |-> double_spends]
    /\ UNCHANGED ledger_vars

NextNode ==
    \/ \E i \in Reqs : TryAddValidate(i)
    \/ \E i \in Reqs : TryAddStore(i)
    \/ \E q \in ConflictingRequests : NextRequests(q)

----------------------------------------------------------------------------
(* fetch_store_quote_with_retries: state machine, one call per address *)

FetchOk(addr, n) == [kind |-> "Ok", addr |-> addr, quotes |-> n]

\* no fetch is made
FetchIdle ==
    /\ fq = [a \in Addrs |-> NoFetch]
    /\ fq_log = [a \in Addrs |-> <<>>]
    /\ fq_sleeps = [a \in Addrs |-> 0]
    /\ fq_result = [a \in Addrs |-> CouldNotGetStoreQuote(a)]

\* get_store_quotes has called fetch_store_quote_with_retries for every address
FetchStart ==
    /\ fq = [a \in Addrs |-> NoFetch]
    /\ fq_log = [a \in Addrs |-> <<>>]
    /\ fq_sleeps = [a \in Addrs |-> 0]
    /\ fq_result = [a \in Addrs |-> NoResult]

\* fetch_store_quote returns o to the loop: break with Ok or Err, or go on to
\* the sleep at the end of the loop body
FetchStoreQuoteReturns(addr, o) ==
    LET f == fetch_step(fq[addr], o) IN
    /\ fq[addr].status = "pending"
    /\ fq_result[addr] = NoResult
    /\ fq' = [fq EXCEPT ![addr] = f]
    /\ fq_log' = [fq_log EXCEPT ![addr] = Append(@, o)]
    /\ fq_sleeps' = [fq_sleeps EXCEPT ![addr] = IF f.status = "sleeping" THEN @ + 1 ELSE @]
    /\ fq_result' = [fq_result EXCEPT ![addr] =
                        IF f.status = "ok" THEN FetchOk(addr, f.quotes)
                        ELSE IF f.status = "err" THEN CouldNotGetStoreQuote(addr)
                        ELSE NoResult]

\* tokio::time::sleep(5 s) ends and the loop calls fetch_store_quote again
FetchSleepEnds(addr) ==
    /\ fq[addr].status = "sleeping"
    /\ fq' = [fq EXCEPT ![addr].status = "pending"]
    /\ UNCHANGED <<fq_log, fq_sleeps, fq_result>>

NextFetch ==
    \/ \E addr \in Addrs, o \in FetchOutcomes : FetchStoreQuoteReturns(addr, o)
    \/ \E addr \in Addrs : FetchSleepEnds(addr)

----------------------------------------------------------------------------
(* Replication fetch: fetch_replication_keys_without_wait *)

\* the number of (holder, key) entries of keys_to_fetch
NumKeys == 2

Keys == 1..NumKeys

\* keys_to_fetch: Vec<(PeerId, RecordKey)>
keys_to_fetch == [i \in Keys |-> [holder |-> <<"holder", i>>, key |-> i]]

NoResponse == [kind |-> "none"]
TaskReturnedOk == [kind |-> "Ok"]
TaskReturnedErr == [kind |-> "Err"]

\* what node.network().send_request(req, holder) gives the task
HolderResponses ==
    { [kind |-> "SendRequestErr"],
      [kind |-> "GetReplicatedRecordOk", content |-> "content"],
      [kind |-> "GetReplicatedRecordErr"],
      [kind |-> "OtherResponse"] }

\* what get_record_from_network gives the task
NetworkResults ==
    UNION { { [kind |-> "Ok", record |-> [key |-> k, value |-> "content"]],
              [kind |-> "DoubleSpendAttempt", key |-> k, spends |-> <<"spend a", "spend b">>],
              [kind |-> "OtherError", key |-> k] } : k \in Keys }

\* Record::new(key, value)
RecordNew(key, value) == [key |-> key, value |-> value]
NoRecord == [key |-> 0, value |-> "none"]

\* the requests of a task
GetReplicatedRecord(holder, key) ==
    [req |-> "GetReplicatedRecord", to |-> holder, key |-> key,
     get_quorum |-> "none", retry_strategy |-> "none"]
GetRecordFromNetwork(key, cfg) ==
    [req |-> "get_record_from_network", to |-> <<"network", 0>>, key |-> key,
     get_quorum |-> cfg.get_quorum, retry_strategy |-> cfg.retry_strategy]

\* GetRecordCfg of the fallback query
get_cfg == [get_quorum |-> "One", retry_strategy |-> "None"]

\* the holder never taken at its word
record_opt_none(resp) == [some |-> FALSE, content |-> "none"]

\* record_opt: Some(record_content) when the holder answered with the record
record_opt(resp) ==
    IF resp.kind = "GetReplicatedRecordOk"
    THEN [some |-> TRUE, content |-> resp.content]
    ELSE [some |-> FALSE, content |-> "none"]

\* try_serialize_record(&spends, RecordKind::Spend): the bytes of a spend record
try_serialize_record(spends, kind) == <<kind, spends>>

\* every error of the network fetch taken for a failure
network_record_errors_fail(key, r) ==
    IF r.kind = "Ok" THEN [some |-> TRUE, record |-> r.record]
    ELSE [some |-> FALSE, record |-> NoRecord]

\* the match on get_record_from_network: the record, the record made of the
\* spends of a double spend attempt, or return Err(other_error)
network_record(key, r) ==
    IF r.kind = "Ok" THEN [some |-> TRUE, record |-> r.record]
    ELSE IF r.kind = "DoubleSpendAttempt"
    THEN [some |-> TRUE,
          record |-> RecordNew(key, try_serialize_record(r.spends, "Spend"))]
    ELSE [some |-> FALSE, record |-> NoRecord]

\* tasks awaited one after the other, the batch ending at the first error
task_runs_after_success(task_results, i) == \A j \in 1..(i - 1) : task_results[j] = TaskReturnedOk

\* spawn(async move { .. }): a task runs on its own, whatever the others do
task_runs(task_results, i) == TRUE

\* no replication fetch is made
ReplicationIdle ==
    /\ rp_spawned = 0
    /\ rp_returned = NoResponse
    /\ rp_pc = [i \in Keys |-> "none"]
    /\ rp_sent = [i \in Keys |-> <<>>]
    /\ rp_holder = [i \in Keys |-> NoResponse]
    /\ rp_net = [i \in Keys |-> NoResponse]
    /\ rp_record = [i \in Keys |-> NoRecord]
    /\ rp_task = [i \in Keys |-> NoResponse]
    /\ rp_store = [i \in Keys |-> NoRecord]

\* fetch_replication_keys_without_wait is called with keys the local store
\* does not hold
FetchReplicationKeysCalled ==
    /\ rp_spawned = 0
    /\ rp_returned = NoResponse
    /\ rp_pc = [i \in Keys |-> "none"]
    /\ rp_sent = [i \in Keys |-> <<>>]
    /\ rp_holder = [i \in Keys |-> NoResponse]
    /\ rp_net = [i \in Keys |-> NoResponse]
    /\ rp_record = [i \in Keys |-> NoRecord]
    /\ rp_task = [i \in Keys |-> NoResponse]
    /\ rp_store = [i \in Keys |-> NoRecord]

\* one turn of `for (holder, key) in keys_to_fetch`: spawn the task
SpawnFetch ==
    /\ rp_returned = NoResponse
    /\ rp_spawned < NumKeys
    /\ rp_spawned' = rp_spawned + 1
    /\ rp_pc' = [rp_pc EXCEPT ![rp_spawned + 1] = "spawned"]
    /\ UNCHANGED <<rp_returned, rp_sent, rp_holder, rp_net, rp_record, rp_task, rp_store>>

\* the loop is over: Ok(())
FetchReplicationKeysReturns ==
    /\ rp_returned = NoResponse
    /\ rp_spawned = NumKeys
    /\ rp_returned' = TaskReturnedOk
    /\ UNCHANGED <<rp_spawned, rp_pc, rp_sent, rp_holder, rp_net, rp_record, rp_task,
                   rp_store>>

\* the task sends Query::GetReplicatedRecord to the holder
SendToHolder(i) ==
    /\ rp_pc[i] = "spawned"
    /\ task_runs(rp_task, i)
    /\ rp_pc' = [rp_pc EXCEPT ![i] = "holder"]
    /\ rp_sent' = [rp_sent EXCEPT ![i] =
                      Append(@, GetReplicatedRecord(keys_to_fetch[i].holder,
                                                    keys_to_fetch[i].key))]
    /\ UNCHANGED <<rp_spawned, rp_returned, rp_holder, rp_net, rp_record, rp_task,
                   rp_store>>

\* send_request returns: with the record the task goes on to store it, else
\* it asks the network
HolderAnswers(i, resp) ==
    LET opt == record_opt(resp) IN
    /\ rp_pc[i] = "holder"
    /\ rp_holder' = [rp_holder EXCEPT ![i] = resp]
    /\ IF opt.some
       THEN /\ rp_record' = [rp_record EXCEPT ![i] =
                                RecordNew(keys_to_fetch[i].key, opt.content)]
            /\ rp_pc' = [rp_pc EXCEPT ![i] = "storing"]
            /\ UNCHANGED rp_sent
       ELSE /\ rp_sent' = [rp_sent EXCEPT ![i] =
                              Append(@, GetRecordFromNetwork(keys_to_fetch[i].key, get_cfg))]
            /\ rp_pc' = [rp_pc EXCEPT ![i] = "network"]
            /\ UNCHANGED rp_record
    /\ UNCHANGED <<rp_spawned, rp_returned, rp_net, rp_task, rp_store>>

\* get_record_from_network returns
NetworkAnswers(i, r) ==
    LET got == network_record(keys_to_fetch[i].key, r) IN
    /\ rp_pc[i] = "network"
    /\ r.kind = "Ok" => r.record.key = keys_to_fetch[i].key
    /\ r.kind # "Ok" => r.key = keys_to_fetch[i].key
    /\ rp_net' = [rp_net EXCEPT ![i] = r]
    /\ IF got.some
       THEN /\ rp_record' = [rp_record EXCEPT ![i] = got.record]
            /\ rp_pc' = [rp_pc EXCEPT ![i] = "storing"]
            /\ UNCHANGED rp_task
       ELSE /\ rp_pc' = [rp_pc EXCEPT ![i] = "ended"]
            /\ rp_task' = [rp_task EXCEPT ![i] = TaskReturnedErr]
            /\ UNCHANGED rp_record
    /\ UNCHANGED <<rp_spawned, rp_returned, rp_sent, rp_holder, rp_store>>

\* node.store_replicated_in_record(record) returns; an error is logged
StoreReplicatedInRecord(i, ok) ==
    /\ rp_pc[i] = "storing"
    /\ rp_store' = IF ok THEN [rp_store EXCEPT ![rp_record[i].key] = rp_record[i]]
                   ELSE rp_store
    /\ rp_pc' = [rp_pc EXCEPT ![i] = IF ok THEN "ended" ELSE "ended_unstored"]
    /\ rp_task' = [rp_task EXCEPT ![i] = TaskReturnedOk]
    /\ UNCHANGED <<rp_spawned, rp_returned, rp_sent, rp_holder, rp_net, rp_record>>

NextReplication ==
    \/ SpawnFetch
    \/ FetchReplicationKeysReturns
    \/ \E i \in Keys : SendToHolder(i)
    \/ \E i \in Keys, resp \in HolderResponses : HolderAnswers(i, resp)
    \/ \E i \in Keys, r \in NetworkResults : NetworkAnswers(i, r)
    \/ \E i \in Keys, ok \in BOOLEAN : StoreReplicatedInRecord(i, ok)

----------------------------------------------------------------------------
(* Bounds of the model of the missing-data exchange *)

\* the number of chunk addresses there are
NumData == 3
\* MAX_REPLICATION_BATCH_SIZE, 25 in the code, scaled down so that the chunks
\* a peer holds can exceed it
MaxReplicationBatch == 2
\* the rounds of the exchange that are counted
MaxAsks == 4

----------------------------------------------------------------------------
(* Missing data: Node::ask_for_missing_data and Query::GetMissingData *)

Data == 1..NumData

\* the orders data_i_have.shuffle(..) can leave the addresses in
Shuffles(addrs) ==
    {s \in [1..Cardinality(addrs) -> addrs] :
        \A i, j \in DOMAIN s : i # j => s[i] # s[j]}

SeqToSet(s) == {s[i] : i \in DOMAIN s}

NoMessage == [kind |-> "none"]
GetMissingData(existing) == [kind |-> "GetMissingData", existing_data |-> existing]
MissingDataOk(data) == [kind |-> "data", data |-> data]
InternalProcessing == [kind |-> "InternalProcessing", data |-> <<>>]
UnexpectedResponses == [kind |-> "UnexpectedResponses"]
SendRequestError == [kind |-> "Network"]

\* a batch that is never cut
batch_is_full_never(len) == FALSE

\* `if data_for_sender.len() == MAX_REPLICATION_BATCH_SIZE { break; }`
batch_is_full(len) == len = MaxReplicationBatch

\* a loop that also sends what the requester holds
skip_existing_never(existing_data, addr) == FALSE

\* `if existing_data.contains(&addr) { continue; }`
skip_existing(existing_data, addr) == addr \in existing_data

RECURSIVE data_for_sender_loop(_, _, _, _)
\* the for loop over data_i_have: an address the requester has is skipped, a
\* chunk that cannot be read is skipped, the others are pushed until the
\* batch is full
data_for_sender_loop(data_i_have, existing_data, unreadable, data_for_sender) ==
    IF data_i_have = <<>> THEN data_for_sender
    ELSE LET addr == Head(data_i_have) IN
         IF skip_existing(existing_data, addr)
         THEN data_for_sender_loop(Tail(data_i_have), existing_data, unreadable,
                                   data_for_sender)
         ELSE IF addr \in unreadable
         THEN data_for_sender_loop(Tail(data_i_have), existing_data, unreadable,
                                   data_for_sender)
         ELSE LET pushed == Append(data_for_sender, addr) IN
              IF batch_is_full(Len(pushed)) THEN pushed
              ELSE data_for_sender_loop(Tail(data_i_have), existing_data, unreadable,
                                        pushed)

\* what node_get_closest_local_peers(&sender) can give: the peers with this
\* node among them, the peers without it, or an error
ClosestOutcomes == {"among", "not_among", "error"}

\* handle_query, Query::GetMissingData: a node that is not among the closest
\* peers of the sender refuses, any other answers with a batch
handle_get_missing_data(existing_data, closest, data_i_have, unreadable) ==
    IF closest = "not_among" THEN InternalProcessing
    ELSE MissingDataOk(data_for_sender_loop(data_i_have, existing_data, unreadable, <<>>))

\* ChunkStorage::addrs after the chunks of the batch were handed to
\* ChunkStorage::store, which stored those in stored_ok and failed on the rest
chunks_after_store(addrs, missing_data, stored_ok) ==
    addrs \cup (SeqToSet(missing_data) \cap stored_ok)

\* the exchange goes on whether the batch is empty or not
ask_again_always(missing_data) == TRUE

\* `if !missing_data.is_empty() { return Self::ask_for_missing_data(..).await; }`
ask_again(missing_data) == missing_data # <<>>

\* no missing-data exchange runs
MissingDataIdle ==
    /\ md_pc = "idle"
    /\ md_have = {}
    /\ md_start = {}
    /\ md_held = {}
    /\ md_request = NoMessage
    /\ md_response = NoMessage
    /\ md_rounds = 0
    /\ md_result = NoResult

\* ask_for_missing_data is called for a peer; both nodes hold some chunks
AskForMissingDataCalled ==
    /\ md_pc = "asking"
    /\ md_have \in SUBSET Data
    /\ md_start = md_have
    /\ md_held \in SUBSET Data
    /\ md_request = NoMessage
    /\ md_response = NoMessage
    /\ md_rounds = 0
    /\ md_result = NoResult

\* the request is built from chunks.addrs() and handed to send_request
SendGetMissingData ==
    /\ md_pc = "asking"
    /\ md_request' = GetMissingData(md_have)
    /\ md_response' = NoMessage
    /\ md_rounds' = IF md_rounds < MaxAsks THEN md_rounds + 1 ELSE md_rounds
    /\ md_pc' = "sent"
    /\ UNCHANGED <<md_have, md_start, md_held, md_result>>

\* send_request fails: `?` returns the error
SendRequestFails ==
    /\ md_pc = "sent"
    /\ md_pc' = "failed"
    /\ md_result' = SendRequestError
    /\ UNCHANGED <<md_have, md_start, md_held, md_request, md_response, md_rounds>>

\* the peer handles the query and its response arrives
HandleGetMissingData(closest, shuffled, unreadable) ==
    /\ md_pc = "sent"
    /\ md_response' = handle_get_missing_data(md_request.existing_data, closest,
                                              shuffled, unreadable)
    /\ md_pc' = "answered"
    /\ UNCHANGED <<md_have, md_start, md_held, md_request, md_rounds, md_result>>

\* any response but GetMissingData(Ok(..)): UnexpectedResponses is returned
UnexpectedResponse ==
    /\ md_pc = "answered"
    /\ md_response.kind # "data"
    /\ md_pc' = "failed"
    /\ md_result' = UnexpectedResponses
    /\ UNCHANGED <<md_have, md_start, md_held, md_request, md_response, md_rounds>>

\* the chunks of the batch are stored, a failure is logged; after a batch
\* that was not empty the peer is asked again, else Ok(()) is returned
StoreMissingData(stored_ok) ==
    /\ md_pc = "answered"
    /\ md_response.kind = "data"
    /\ md_have' = chunks_after_store(md_have, md_response.data, stored_ok)
    /\ IF ask_again(md_response.data)
       THEN md_pc' = "asking" /\ UNCHANGED md_result
       ELSE md_pc' = "done" /\ md_result' = Ok
    /\ UNCHANGED <<md_start, md_held, md_request, md_response, md_rounds>>

NextMissingData ==
    \/ SendGetMissingData
    \/ SendRequestFails
    \/ \E closest \in ClosestOutcomes, shuffled \in Shuffles(md_held),
          unreadable \in SUBSET md_held :
          HandleGetMissingData(closest, shuffled, unreadable)
    \/ UnexpectedResponse
    \/ \E stored_ok \in SUBSET Data : StoreMissingData(stored_ok)

----------------------------------------------------------------------------
(* Spend command and spend events: Node::handle_cmd and Node::handle_request *)

\* the spends of the one id the command and the events are about
SpendsOfId == {s \in SignedSpend : s.id = "id1"}

NoEvent == [kind |-> "none"]
ValidSpendReceived(spend) == [kind |-> "ValidSpendReceived", spend |-> spend]
DoubleSpendAttempted(new, existing) ==
    [kind |-> "DoubleSpendAttempted", new |-> new, existing |-> existing]
SpendParentCloseGroupIssue == [kind |-> "SpendParentCloseGroupIssue"]

\* Event::double_spend_attempt(new, existing)
double_spend_attempt(new, existing) == DoubleSpendAttempted(new, existing)

\* the event handle_cmd hands to fire_and_forget_to_local_closest after
\* try_add: ValidSpendReceived for Ok, DoubleSpendAttempted with both spends
\* for DoubleSpendAttempt, none for another error
spend_event(res, signed_spend) ==
    IF res = Ok THEN ValidSpendReceived(signed_spend)
    ELSE IF res.kind = "DoubleSpendAttempt"
    THEN double_spend_attempt(res.new, res.existing)
    ELSE NoEvent

\* handle_cmd, Cmd::SpendDbc: the parent spends are fetched, then try_add
handle_spend_cmd(store, signed_spend, parents_ok, w, r) ==
    IF ~parents_ok
    THEN [valid |-> store.valid, double |-> store.double,
          res |-> SpendParentCloseGroupIssue, event |-> NoEvent]
    ELSE LET t == try_add(store.valid, store.double, signed_spend, w, r) IN
         [valid |-> t.valid, double |-> t.double, res |-> t.res,
          event |-> spend_event(t.res, signed_spend)]

\* handle_request, Request::Event: try_add for ValidSpendReceived,
\* try_add_double for DoubleSpendAttempted
handle_event(store, event, w, r) ==
    IF event.kind = "ValidSpendReceived"
    THEN try_add(store.valid, store.double, event.spend, w, r)
    ELSE try_add_double(store.valid, store.double, event.new, event.existing, w, r)

\* the handler that ran last: the event it sent or handled, what the command
\* returned, and for an event whether the peer's disk wrote what it was asked
NoHandler ==
    [op |-> "none", event |-> NoEvent, res |-> Ok, w |-> "ok", sent |-> FALSE]

EmptyStore == [valid |-> [a \in IDs |-> NoFile], double |-> [a \in IDs |-> NoFile]]

\* no spend command arrives
SpendEventsIdle ==
    /\ se_node = EmptyStore
    /\ se_peer = EmptyStore
    /\ se_inbox = NoEvent
    /\ se_last = NoHandler

\* a node and one of its closest peers, both with empty spend storage
SpendEventsStart ==
    /\ se_node = EmptyStore
    /\ se_peer = EmptyStore
    /\ se_inbox = NoEvent
    /\ se_last = NoHandler

\* the node handles Cmd::SpendDbc; the event, if there is one, is handed to
\* the network and is on its way to the peer
HandleSpendCmd(signed_spend, parents_ok, w, r) ==
    LET h == handle_spend_cmd(se_node, signed_spend, parents_ok, w, r) IN
    /\ se_node' = [valid |-> h.valid, double |-> h.double]
    /\ se_inbox' = IF h.event # NoEvent THEN h.event ELSE se_inbox
    /\ se_last' = [op |-> "cmd", event |-> h.event, res |-> h.res, w |-> "ok",
                   sent |-> (h.event # NoEvent)]
    /\ UNCHANGED se_peer

\* fire and forget: the event never reaches the peer
EventLost ==
    /\ se_inbox # NoEvent
    /\ se_inbox' = NoEvent
    /\ UNCHANGED <<se_node, se_peer, se_last>>

\* the peer handles the event that reached it
HandleEvent(w, r) ==
    LET h == handle_event(se_peer, se_inbox, w, r) IN
    /\ se_inbox # NoEvent
    /\ se_peer' = [valid |-> h.valid, double |-> h.double]
    /\ se_inbox' = NoEvent
    /\ se_last' = [op |-> "event", event |-> se_inbox, res |-> Ok, w |-> w,
                   sent |-> FALSE]
    /\ UNCHANGED se_node

NextSpendEvents ==
    \/ \E s \in SpendsOfId, w \in WriteOutcomes, r \in RemoveOutcomes :
          HandleSpendCmd(s, TRUE, w, r)
    \/ \E s \in SpendsOfId : HandleSpendCmd(s, FALSE, "ok", "ok")
    \/ EventLost
    \/ \E w \in WriteOutcomes, r \in RemoveOutcomes : HandleEvent(w, r)

----------------------------------------------------------------------------
(* Bounds of the model of get_spend *)

\* the number of closest peers that are queried
GroupPeers == 3

----------------------------------------------------------------------------
(* Node::get_spend *)

\* close_group_majority(): more than half of the close group
close_group_majority == GroupPeers \div 2 + 1

\* the spends the peers may report for the address
ReportedSpends == {s \in SignedSpend : s.id = "id1" /\ s.sig = "valid"}

SendErr == [kind |-> "SendErr"]
GetDbcSpendResponse(result) == [kind |-> "GetDbcSpend", result |-> result]
OtherResponse == [kind |-> "Other"]

\* what one queried peer can contribute to the responses
PeerResponses ==
    {SendErr, OtherResponse, GetDbcSpendResponse(SpendNotFound("id1"))}
        \cup {GetDbcSpendResponse(OkSpend(s)) : s \in ReportedSpends}

\* what node_send_to_queried_closest can return: one entry per peer that
\* was queried
QueriedResponses == UNION {[1..n -> PeerResponses] : n \in 0..GroupPeers}

\* the Ok results of the expected response type
ok_spends(responses) ==
    SelectSeq(responses,
              LAMBDA resp : resp.kind = "GetDbcSpend" /\ resp.result.kind = "OkSpend")

\* into_group_map: the number of responses that carry this spend
group_len(spends, spend) ==
    Cardinality({i \in DOMAIN spends : spends[i].result.spend = spend})

\* a filter that lets every group pass
group_is_majority_any(len) == TRUE

\* `.filter(|(_, v)| v.len() >= close_group_majority())`
group_is_majority(len) == len >= close_group_majority

\* the groups left by the filter that max_by_key can return
majority_spends(spends) ==
    LET reported == {spends[i].result.spend : i \in DOMAIN spends}
        passed == {s \in reported : group_is_majority(group_len(spends, s))}
    IN {s \in passed : \A t \in passed : group_len(spends, t) <= group_len(spends, s)}

\* the error get_spend falls back to: the first error of the expected
\* response type, else the first send error, else UnexpectedResponses
get_spend_error(responses) ==
    LET query_errs == SelectSeq(responses,
            LAMBDA resp : resp.kind = "GetDbcSpend" /\ resp.result.kind # "OkSpend")
        send_errs == SelectSeq(responses, LAMBDA resp : resp.kind = "SendErr")
    IN IF query_errs # <<>> THEN Head(query_errs).result
       ELSE IF send_errs # <<>> THEN SendRequestError
       ELSE UnexpectedResponses

\* Node::get_spend: what it can return for these responses
get_spend(responses) ==
    LET spends == ok_spends(responses) IN
    IF Len(spends) >= close_group_majority /\ majority_spends(spends) # {}
    THEN {OkSpend(s) : s \in majority_spends(spends)}
    ELSE {get_spend_error(responses)}

\* get_spend is not called
GetSpendIdle ==
    /\ gs_pc = "idle"
    /\ gs_responses = <<>>
    /\ gs_result = NoResult

\* get_spend has sent the query to the closest peers
GetSpendCalled ==
    /\ gs_pc = "querying"
    /\ gs_responses = <<>>
    /\ gs_result = NoResult

\* node_send_to_queried_closest fails as a whole: `?` returns the error
QueryFails ==
    /\ gs_pc = "querying"
    /\ gs_pc' = "returned"
    /\ gs_result' = SendRequestError
    /\ UNCHANGED gs_responses

\* node_send_to_queried_closest returns the responses of the peers
QueryReturns(responses) ==
    /\ gs_pc = "querying"
    /\ gs_pc' = "responded"
    /\ gs_responses' = responses
    /\ UNCHANGED gs_result

\* get_spend goes through the responses and returns
GetSpendReturns(result) ==
    /\ gs_pc = "responded"
    /\ result \in get_spend(gs_responses)
    /\ gs_pc' = "returned"
    /\ gs_result' = result
    /\ UNCHANGED gs_responses

NextGetSpend ==
    \/ QueryFails
    \/ \E responses \in QueriedResponses : QueryReturns(responses)
    \/ \E result \in get_spend(gs_responses) : GetSpendReturns(result)

----------------------------------------------------------------------------
(* Bounds of the model of the replication of a fresh record *)

\* the number of peers there are, this node included
NumFreshPeers == 4

----------------------------------------------------------------------------
(* Node::replicate_valid_fresh_record *)

FreshPeers == 1..NumFreshPeers

\* network.peer_id()
our_peer_id == 1

\* REPLICATION_PEERS_COUNT of sn_networking
REPLICATION_PEERS_COUNT == 2

\* what network.get_local_record(&paid_key) can return
LocalRecordOutcomes == {"Some", "None", "Err"}

\* `match network.get_local_record(..).await { Ok(record) => record, Err(_) => None }`
\* followed by record.is_some()
record_is_some(outcome) == outcome = "Some"

\* `if retry_count > 10 { return; }`
retries_exhausted(retry_count) == retry_count > 10

\* the peers are left as they came
retain_all(closest_k_peers, self_id) == closest_k_peers

\* closest_k_peers.retain(|peer_id| peer_id != &network.peer_id())
retain_not_self(closest_k_peers, self_id) == closest_k_peers \ {self_id}

\* sort_peers_by_address(peers, address, n): the n peers closest to the
\* address, all of them when there are fewer; the address may rank the peers
\* in any order
sort_peers_by_address(peers, n) ==
    {sorted \in SUBSET peers :
        Cardinality(sorted) = IF Cardinality(peers) < n THEN Cardinality(peers) ELSE n}

\* no fresh record is replicated
FreshIdle ==
    /\ fr_pc = "idle"
    /\ fr_retry_count = 0
    /\ fr_polls = 0
    /\ fr_found = FALSE
    /\ fr_closest = {}
    /\ fr_sent = {}

\* replicate_valid_fresh_record has spawned its task
ReplicateValidFreshRecordCalled ==
    /\ fr_pc = "polling"
    /\ fr_retry_count = 0
    /\ fr_polls = 0
    /\ fr_found = FALSE
    /\ fr_closest = {}
    /\ fr_sent = {}

\* one turn of the loop: get_local_record returns; with the record the loop
\* is left, without it the task gives up after the retries or sleeps
PollLocalRecord(outcome) ==
    /\ fr_pc = "polling"
    /\ fr_polls' = fr_polls + 1
    /\ IF record_is_some(outcome)
       THEN /\ fr_found' = TRUE
            /\ fr_pc' = "closest"
            /\ UNCHANGED fr_retry_count
       ELSE IF retries_exhausted(fr_retry_count)
       THEN /\ fr_pc' = "ended"
            /\ UNCHANGED <<fr_found, fr_retry_count>>
       ELSE /\ fr_retry_count' = fr_retry_count + 1
            /\ fr_pc' = "sleeping"
            /\ UNCHANGED fr_found
    /\ UNCHANGED <<fr_closest, fr_sent>>

\* the sleep of 100 ms ends
FreshSleepEnds ==
    /\ fr_pc = "sleeping"
    /\ fr_pc' = "polling"
    /\ UNCHANGED <<fr_retry_count, fr_polls, fr_found, fr_closest, fr_sent>>

\* get_closest_k_value_local_peers or sort_peers_by_address fails: the task
\* returns
ClosestPeersFail(closest_k_peers) ==
    /\ fr_pc = "closest"
    /\ fr_closest' = closest_k_peers
    /\ fr_pc' = "ended"
    /\ UNCHANGED <<fr_retry_count, fr_polls, fr_found, fr_sent>>

\* get_closest_k_value_local_peers returns the peers; this node is taken
\* out, the others are sorted by the address, and Cmd::Replicate is sent to
\* each of the peers the sort returned
ReplicateToClosest(closest_k_peers, sorted_based_on_addr) ==
    /\ fr_pc = "closest"
    /\ sorted_based_on_addr \in
          sort_peers_by_address(retain_not_self(closest_k_peers, our_peer_id),
                                REPLICATION_PEERS_COUNT)
    /\ fr_closest' = closest_k_peers
    /\ fr_sent' = sorted_based_on_addr
    /\ fr_pc' = "ended"
    /\ UNCHANGED <<fr_retry_count, fr_polls, fr_found>>

NextFresh ==
    \/ \E outcome \in LocalRecordOutcomes : PollLocalRecord(outcome)
    \/ FreshSleepEnds
    \/ \E closest_k_peers \in SUBSET FreshPeers : ClosestPeersFail(closest_k_peers)
    \/ \E closest_k_peers \in SUBSET FreshPeers, sorted \in SUBSET FreshPeers :
          ReplicateToClosest(closest_k_peers, sorted)

----------------------------------------------------------------------------
(* Specifications *)

InitLedger == LedgerNew /\ PayIdle /\ UploadIdle /\ WalletIdle /\ LinkedListIdle /\ ConnectIdle /\ ClientIdle /\ NodeIdle /\ FetchIdle /\ ReplicationIdle /\ MissingDataIdle /\ SpendEventsIdle /\ GetSpendIdle /\ FreshIdle

NextLedger ==
    \/ \E address \in IDs : Get(address) /\ UNCHANGED <<pay_vars, upload_vars, wallet_vars, ll_vars, cn_vars, cm_vars, nd_vars, fq_vars, rp_vars, md_vars, se_vars, gs_vars, fr_vars>>
    \/ \E s \in SignedSpend, w \in WriteOutcomes, r \in RemoveOutcomes :
          TryAdd(s, w, r) /\ UNCHANGED <<pay_vars, upload_vars, wallet_vars, ll_vars, cn_vars, cm_vars, nd_vars, fq_vars, rp_vars, md_vars, se_vars, gs_vars, fr_vars>>
    \/ \E a, b \in SignedSpend, w \in WriteOutcomes, r \in RemoveOutcomes :
          TryAddDouble(a, b, w, r) /\ UNCHANGED <<pay_vars, upload_vars, wallet_vars, ll_vars, cn_vars, cm_vars, nd_vars, fq_vars, rp_vars, md_vars, se_vars, gs_vars, fr_vars>>

SpecLedger == InitLedger /\ [][NextLedger]_vars

\* get_store_quotes and pay for one address
InitQuote == LedgerNew /\ PayStart(<<"x1">>, 1..MaxPrice) /\ UploadIdle /\ WalletIdle /\ LinkedListIdle /\ ConnectIdle /\ ClientIdle /\ NodeIdle /\ FetchIdle /\ ReplicationIdle /\ MissingDataIdle /\ SpendEventsIdle /\ GetSpendIdle /\ FreshIdle

\* get_store_quotes and pay for two addresses
InitPay == LedgerNew /\ PayStart(<<"x1", "x2">>, TwoLevels) /\ UploadIdle /\ WalletIdle /\ LinkedListIdle /\ ConnectIdle /\ ClientIdle /\ NodeIdle /\ FetchIdle /\ ReplicationIdle /\ MissingDataIdle /\ SpendEventsIdle /\ GetSpendIdle /\ FreshIdle

NextQuote == NextPay /\ UNCHANGED <<ledger_vars, upload_vars, wallet_vars, ll_vars, cn_vars, cm_vars, nd_vars, fq_vars, rp_vars, md_vars, se_vars, gs_vars, fr_vars>>

SpecQuote == InitQuote /\ [][NextQuote]_vars

SpecPay == InitPay /\ [][NextQuote]_vars

\* data_put
InitUpload == LedgerNew /\ PayIdle /\ DataPutStart /\ WalletIdle /\ LinkedListIdle /\ ConnectIdle /\ ClientIdle /\ NodeIdle /\ FetchIdle /\ ReplicationIdle /\ MissingDataIdle /\ SpendEventsIdle /\ GetSpendIdle /\ FreshIdle

NextDataPut == NextUpload /\ UNCHANGED <<ledger_vars, pay_vars, wallet_vars, ll_vars, cn_vars, cm_vars, nd_vars, fq_vars, rp_vars, md_vars, se_vars, gs_vars, fr_vars>>

SpecUpload == InitUpload /\ [][NextDataPut]_vars

\* data_put of two chunks, paid with the wallet
InitStore == LedgerNew /\ PayStart(<<"x1", "x2">>, {1}) /\ DataPutCallsPay /\ WalletIdle /\ LinkedListIdle /\ ConnectIdle /\ ClientIdle /\ NodeIdle /\ FetchIdle /\ ReplicationIdle /\ MissingDataIdle /\ SpendEventsIdle /\ GetSpendIdle /\ FreshIdle

NextDataPutWithPay == NextStore /\ UNCHANGED <<ledger_vars, wallet_vars, ll_vars, cn_vars, cm_vars, nd_vars, fq_vars, rp_vars, md_vars, se_vars, gs_vars, fr_vars>>

SpecStore == InitStore /\ [][NextDataPutWithPay]_vars

\* concurrent calls of pay on one wallet
InitWallet == LedgerNew /\ PayIdle /\ UploadIdle /\ WalletIdle /\ LinkedListIdle /\ ConnectIdle /\ ClientIdle /\ NodeIdle /\ FetchIdle /\ ReplicationIdle /\ MissingDataIdle /\ SpendEventsIdle /\ GetSpendIdle /\ FreshIdle

NextWallet == NextPayers /\ UNCHANGED <<ledger_vars, pay_vars, upload_vars, ll_vars, cn_vars, cm_vars, nd_vars, fq_vars, rp_vars, md_vars, se_vars, gs_vars, fr_vars>>

SpecWallet == InitWallet /\ [][NextWallet]_vars

\* linked_list_put, called again and again for one address
InitLinkedList ==
    LedgerNew /\ PayStart(<<"x1">>, TwoLevels) /\ UploadIdle /\ WalletIdle /\ LinkedListPutStart
    /\ ConnectIdle
    /\ ClientIdle
    /\ NodeIdle
    /\ FetchIdle
    /\ ReplicationIdle
    /\ MissingDataIdle
    /\ SpendEventsIdle
    /\ GetSpendIdle
    /\ FreshIdle

NextPut == NextLinkedList /\ UNCHANGED <<ledger_vars, upload_vars, wallet_vars, cn_vars, cm_vars, nd_vars, fq_vars, rp_vars, md_vars, se_vars, gs_vars, fr_vars>>

SpecLinkedList == InitLinkedList /\ [][NextPut]_vars

\* the connect phase; time passes and a timer that is due ticks
InitConnect ==
    LedgerNew /\ PayIdle /\ UploadIdle /\ WalletIdle /\ LinkedListIdle /\ ConnectStart
    /\ ClientIdle
    /\ NodeIdle
    /\ FetchIdle
    /\ ReplicationIdle
    /\ MissingDataIdle
    /\ SpendEventsIdle
    /\ GetSpendIdle
    /\ FreshIdle

\* time passing, while the rest of the system stands still
ClockStep ==
    ClockAdvance /\ UNCHANGED <<ledger_vars, pay_vars, upload_vars, wallet_vars, ll_vars, cm_vars, nd_vars, fq_vars, rp_vars, md_vars, se_vars, gs_vars, fr_vars>>

\* the tick of the timer, while the rest of the system stands still
TimerStep ==
    TimerFires /\ UNCHANGED <<ledger_vars, pay_vars, upload_vars, wallet_vars, ll_vars, cm_vars, nd_vars, fq_vars, rp_vars, md_vars, se_vars, gs_vars, fr_vars>>

NextHandleEvents ==
    NextConnect /\ UNCHANGED <<ledger_vars, pay_vars, upload_vars, wallet_vars, ll_vars, cm_vars, nd_vars, fq_vars, rp_vars, md_vars, se_vars, gs_vars, fr_vars>>

SpecConnect ==
    /\ InitConnect
    /\ [][NextHandleEvents]_vars
    /\ WF_vars(ClockStep)
    /\ WF_vars(TimerStep)

\* a client and the calls that change it
InitClient ==
    LedgerNew /\ PayIdle /\ UploadIdle /\ WalletIdle /\ LinkedListIdle /\ ConnectIdle
    /\ ClientInit
    /\ NodeIdle
    /\ FetchIdle
    /\ ReplicationIdle
    /\ MissingDataIdle
    /\ SpendEventsIdle
    /\ GetSpendIdle
    /\ FreshIdle

NextClientCall ==
    NextClient /\ UNCHANGED <<ledger_vars, pay_vars, upload_vars, wallet_vars, ll_vars, cn_vars, nd_vars, fq_vars, rp_vars, md_vars, se_vars, gs_vars, fr_vars>>

SpecClient == InitClient /\ [][NextClientCall]_vars

\* a node that receives conflicting spend requests two at a time
InitNode ==
    LedgerNew /\ PayIdle /\ UploadIdle /\ WalletIdle /\ LinkedListIdle /\ ConnectIdle
    /\ ClientIdle /\ NodeStart
    /\ FetchIdle
    /\ ReplicationIdle
    /\ MissingDataIdle
    /\ SpendEventsIdle
    /\ GetSpendIdle
    /\ FreshIdle

NextSpendRequests ==
    NextNode /\ UNCHANGED <<pay_vars, upload_vars, wallet_vars, ll_vars, cn_vars, cm_vars, fq_vars, rp_vars, md_vars, se_vars, gs_vars, fr_vars>>

SpecNode == InitNode /\ [][NextSpendRequests]_vars

\* the quote fetches of two addresses, each with its retries
InitFetch ==
    LedgerNew /\ PayIdle /\ UploadIdle /\ WalletIdle /\ LinkedListIdle /\ ConnectIdle
    /\ ClientIdle /\ NodeIdle /\ FetchStart
    /\ ReplicationIdle
    /\ MissingDataIdle
    /\ SpendEventsIdle
    /\ GetSpendIdle
    /\ FreshIdle

FetchReturnStep ==
    (\E addr \in Addrs, o \in FetchOutcomes : FetchStoreQuoteReturns(addr, o)) /\ UNCHANGED <<ledger_vars, pay_vars, upload_vars, wallet_vars, ll_vars, cn_vars, cm_vars, nd_vars, rp_vars, md_vars, se_vars, gs_vars, fr_vars>>

FetchSleepStep ==
    (\E addr \in Addrs : FetchSleepEnds(addr)) /\ UNCHANGED <<ledger_vars, pay_vars, upload_vars, wallet_vars, ll_vars, cn_vars, cm_vars, nd_vars, rp_vars, md_vars, se_vars, gs_vars, fr_vars>>

NextFetchWithRetries ==
    NextFetch /\ UNCHANGED <<ledger_vars, pay_vars, upload_vars, wallet_vars, ll_vars, cn_vars, cm_vars, nd_vars, rp_vars, md_vars, se_vars, gs_vars, fr_vars>>

\* a replication fetch of NumKeys keys
InitReplication ==
    LedgerNew /\ PayIdle /\ UploadIdle /\ WalletIdle /\ LinkedListIdle /\ ConnectIdle
    /\ ClientIdle /\ NodeIdle /\ FetchIdle /\ FetchReplicationKeysCalled
    /\ MissingDataIdle
    /\ SpendEventsIdle
    /\ GetSpendIdle
    /\ FreshIdle

NextFetchReplicationKeys ==
    NextReplication /\ UNCHANGED <<ledger_vars, pay_vars, upload_vars, wallet_vars, ll_vars, cn_vars, cm_vars, nd_vars, fq_vars, md_vars, se_vars, gs_vars, fr_vars>>

\* the loop and every spawned task go on: every request is answered and the
\* store returns
SpecReplication ==
    InitReplication /\ [][NextFetchReplicationKeys]_vars /\ WF_vars(NextFetchReplicationKeys)

\* every fetch_store_quote call returns and every sleep ends
SpecFetch ==
    InitFetch /\ [][NextFetchWithRetries]_vars /\ WF_vars(FetchReturnStep) /\ WF_vars(FetchSleepStep)

\* ask_for_missing_data against one peer; every request is answered and the
\* store returns
InitMissingData ==
    LedgerNew /\ PayIdle /\ UploadIdle /\ WalletIdle /\ LinkedListIdle /\ ConnectIdle
    /\ ClientIdle /\ NodeIdle /\ FetchIdle /\ ReplicationIdle /\ AskForMissingDataCalled
    /\ SpendEventsIdle
    /\ GetSpendIdle
    /\ FreshIdle

NextAskForMissingData ==
    NextMissingData /\ UNCHANGED <<ledger_vars, pay_vars, upload_vars, wallet_vars, ll_vars, cn_vars, cm_vars, nd_vars, fq_vars, rp_vars, se_vars, gs_vars, fr_vars>>

SpecMissingData ==
    InitMissingData /\ [][NextAskForMissingData]_vars /\ WF_vars(NextAskForMissingData)

\* spend commands at a node, and the events they send at a peer
InitSpendEvents ==
    LedgerNew /\ PayIdle /\ UploadIdle /\ WalletIdle /\ LinkedListIdle /\ ConnectIdle
    /\ ClientIdle /\ NodeIdle /\ FetchIdle /\ ReplicationIdle /\ MissingDataIdle
    /\ SpendEventsStart
    /\ GetSpendIdle
    /\ FreshIdle

NextHandleRequest ==
    NextSpendEvents /\ UNCHANGED <<ledger_vars, pay_vars, upload_vars, wallet_vars, ll_vars, cn_vars, cm_vars, nd_vars, fq_vars, rp_vars, md_vars, gs_vars, fr_vars>>

SpecSpendEvents == InitSpendEvents /\ [][NextHandleRequest]_vars

\* one call of get_spend
InitGetSpend ==
    LedgerNew /\ PayIdle /\ UploadIdle /\ WalletIdle /\ LinkedListIdle /\ ConnectIdle
    /\ ClientIdle /\ NodeIdle /\ FetchIdle /\ ReplicationIdle /\ MissingDataIdle
    /\ SpendEventsIdle /\ GetSpendCalled
    /\ FreshIdle

NextGetSpendCall ==
    NextGetSpend /\ UNCHANGED <<ledger_vars, pay_vars, upload_vars, wallet_vars, ll_vars, cn_vars, cm_vars, nd_vars, fq_vars, rp_vars, md_vars, se_vars, fr_vars>>

SpecGetSpend == InitGetSpend /\ [][NextGetSpendCall]_vars

\* the task of replicate_valid_fresh_record for one record
InitFresh ==
    LedgerNew /\ PayIdle /\ UploadIdle /\ WalletIdle /\ LinkedListIdle /\ ConnectIdle
    /\ ClientIdle /\ NodeIdle /\ FetchIdle /\ ReplicationIdle /\ MissingDataIdle
    /\ SpendEventsIdle /\ GetSpendIdle /\ ReplicateValidFreshRecordCalled

NextReplicateFresh ==
    NextFresh /\ UNCHANGED <<ledger_vars, pay_vars, upload_vars, wallet_vars, ll_vars, cn_vars, cm_vars, nd_vars, fq_vars, rp_vars, md_vars, se_vars, gs_vars>>

SpecFresh == InitFresh /\ [][NextReplicateFresh]_vars

----------------------------------------------------------------------------
(* Spend ledger: properties *)

\* the id of the last call had no file in either directory before the call
WasUnseen == last.pre_valid = NoFile /\ last.pre_double = NoFile

\* a and b are a genuine conflicting pair for try_add_double
GenuinePair(a, b) == a.id = b.id /\ bytes_hash(a) # bytes_hash(b)

\* the spends a double_spends file holds, whatever their order
SpendsOf(f) == IF f.kind = "pair" THEN {f.a, f.b} ELSE {}

\* C1: once a spend id has a double-spend record, no try_add for that id
\* creates a file for that id under valid_spends.
C1_NeverRepopulated ==
    (/\ last.op = "try_add"
     /\ last.pre_double.kind = "pair"
     /\ last.pre_valid = NoFile)
    => valid_spends[last.id] = NoFile

\* C2: from an unseen id, the try_add of a validly signed spend whose file
\* write succeeds returns Ok and stores it; a try_add of a spend with another
\* content for that id then returns DoubleSpendAttempt with new = the spend
\* submitted second and existing = the spend stored first.
C2_SecondSubmissionIsDoubleSpend ==
    /\ (/\ last.op = "try_add"
         /\ WasUnseen
         /\ verify(last.a)
         /\ last.w = "ok")
        => (last.res = Ok /\ valid_spends[last.id] = SpendFile(last.a))
    /\ (/\ last.op = "try_add"
         /\ last.pre_double = NoFile
         /\ last.pre_valid.kind = "spend"
         /\ spend_hash(last.pre_valid.spend) # spend_hash(last.a))
        => last.res = DoubleSpendAttempt(last.a, last.pre_valid.spend)

C2_Witness ==
    /\ last.op = "try_add"
    /\ last.pre_double = NoFile
    /\ last.pre_valid.kind = "spend"
    /\ verify(last.pre_valid.spend)
    /\ last.a.tx # last.pre_valid.spend.tx
    /\ last.res.kind = "DoubleSpendAttempt"

\* C3: once a double spend is recorded for an id, get for that id returns
\* the recorded pair.
C3_GetReturnsPair ==
    (last.op = "get" /\ double_spends[last.id].kind = "pair")
    => last.res = OkPair(double_spends[last.id].a, double_spends[last.id].b)

\* C4: try_add of a validly signed spend on an unseen id returns Ok and stores
\* it without a double-spend record; try_add of the byte-identical spend again
\* returns Ok and leaves both directories as they were, so no double-spend
\* record appears.
C4_IdenticalSpendIsNoOp ==
    /\ (/\ last.op = "try_add"
         /\ WasUnseen
         /\ verify(last.a)
         /\ last.w = "ok")
        => /\ last.res = Ok
           /\ valid_spends[last.id] = SpendFile(last.a)
           /\ double_spends[last.id] = NoFile
    /\ (/\ last.op = "try_add"
         /\ last.pre_double = NoFile
         /\ last.pre_valid = SpendFile(last.a))
        => /\ last.res = Ok
           /\ valid_spends[last.id] = last.pre_valid
           /\ double_spends[last.id] = NoFile

C4_Witness ==
    /\ last.op = "try_add"
    /\ last.pre_double = NoFile
    /\ last.pre_valid = SpendFile(last.a)
    /\ verify(last.a)
    /\ last.res = Ok

\* the ledger as it was before the last call
PreValid == [valid_spends EXCEPT ![last.id] = last.pre_valid]
PreDouble == [double_spends EXCEPT ![last.id] = last.pre_double]

\* what the last try_add_double would have done with its arguments exchanged
Exchanged == try_add_double(PreValid, PreDouble, last.b, last.a, last.w, last.r)

\* C5 as stated: for a genuine conflicting pair, try_add_double(a, b) and
\* try_add_double(b, a) from the same ledger state leave the same stored
\* double-spend record and the same valid_spends.
C5_SameRecordEitherOrder ==
    (last.op = "try_add_double" /\ GenuinePair(last.a, last.b))
    => (Exchanged.double = double_spends /\ Exchanged.valid = valid_spends)

\* C5 amended: for a genuine conflicting pair, try_add_double(a, b) and
\* try_add_double(b, a) from the same ledger state, with the same disk
\* outcomes, return the same result, leave the same valid_spends and leave a
\* double-spend file of the same kind holding the same two spends; only the
\* order of the two spends in the record follows the order of the arguments.
C5_SamePairEitherOrder ==
    (last.op = "try_add_double" /\ GenuinePair(last.a, last.b))
    => /\ Exchanged.res = last.res
       /\ Exchanged.valid = valid_spends
       /\ \A i \in IDs :
            /\ Exchanged.double[i].kind = double_spends[i].kind
            /\ SpendsOf(Exchanged.double[i]) = SpendsOf(double_spends[i])

C5_Witness ==
    /\ last.op = "try_add_double"
    /\ GenuinePair(last.a, last.b)
    /\ last.pre_valid.kind = "spend"
    /\ last.pre_double = NoFile
    /\ last.res = Ok
    /\ valid_spends[last.id] = NoFile
    /\ double_spends[last.id] = PairFile(last.a, last.b)

\* the last call took away or replaced the spend stored as valid for its id
Demoted == last.pre_valid.kind = "spend" /\ valid_spends[last.id] # last.pre_valid

\* C18: a spend stored as valid is demoted only by a call that brings a spend
\* other than the stored one with a valid signature for that id; a try_add
\* whose spend fails signature verification returns an error and leaves
\* valid_spends and double_spends as they were.
C18_OnlyValidSignatureDemotes ==
    /\ (last.op \in {"try_add", "try_add_double"} /\ Demoted)
        => \E s \in {last.a, last.b} :
              /\ s.id = last.id
              /\ s # last.pre_valid.spend
              /\ verify(s)
    /\ (last.op = "try_add" /\ ~verify(last.a))
        => /\ last.res # Ok
           /\ valid_spends = PreValid
           /\ double_spends = PreDouble

\* the last call removed the valid entry of its id
ValidEntryRemoved ==
    /\ last.op \in {"try_add", "try_add_double"}
    /\ last.pre_valid.kind = "spend"
    /\ valid_spends[last.id] = NoFile

\* C19: after every ledger call, no spend id has a file under valid_spends
\* and a file under double_spends, and an id whose valid entry the call
\* removed has a pair of two spends of that id, of different content,
\* recorded under double_spends.
C19_DemotionAtomic ==
    /\ \A i \in IDs : valid_spends[i] = NoFile \/ double_spends[i] = NoFile
    /\ ValidEntryRemoved
        => /\ double_spends[last.id].kind = "pair"
           /\ GenuinePair(double_spends[last.id].a, double_spends[last.id].b)

C21_ReadFailureIsNotFound ==
    last.op = "get"
    => /\ last.res.kind \in {"OkSpend", "SpendNotFound"}
       /\ valid_spends[last.id].kind # "spend" => last.res = SpendNotFound(last.id)
       /\ last.res.kind = "OkSpend" => dbc_address(last.res.spend.id) = last.id

\* C34: when try_add(s) returns Ok for an id that had no double-spend
\* record, a get for that id right after returns s, whatever file the id had
\* under valid_spends before, an empty or half-written one included.
C34_OkMeansStored ==
    (/\ last.op = "try_add"
     /\ last.res = Ok
     /\ ~is_unspendable(PreDouble, last.id))
    => get(valid_spends, dbc_address(last.id)) = OkSpend(last.a)

\* C35: try_add_double for a genuine conflicting pair on an id that is not
\* unspendable, with the disk doing what it is asked, returns Ok and leaves
\* the id unspendable, with or without a spend stored for the id before; and
\* a try_add_double that returns an error has changed neither directory.
C35_DoubleAddSucceedsOrNoChange ==
    /\ (/\ last.op = "try_add_double"
         /\ GenuinePair(last.a, last.b)
         /\ ~is_unspendable(PreDouble, last.id)
         /\ last.w = "ok"
         /\ last.r = "ok")
        => /\ last.res = Ok
           /\ is_unspendable(double_spends, last.id)
    /\ (last.op = "try_add_double" /\ last.res # Ok)
        => /\ valid_spends = PreValid
           /\ double_spends = PreDouble

----------------------------------------------------------------------------
(* Quote selection and payment: properties *)

\* an address was priced in this call and the prices are still at hand
Priced == last_priced.prices # <<>>

\* the price the oracle gave to the quote of a peer of the address priced last
FacePrice(peer) ==
    LET i == CHOOSE j \in DOMAIN last_priced.prices : last_priced.prices[j].peer = peer
    IN last_priced.prices[i].price

PricedPeers == {last_priced.prices[j].peer : j \in DOMAIN last_priced.prices}

\* C7: an address with at least 5 priced quotes gets exactly 5 entries, of 5
\* distinct peers whose quotes are the lowest priced; the first two are the
\* cheapest of the five and are recorded with price zero, the other three
\* with their face price, and the price of the address is the sum of these
\* three face prices.
C7_FiveCheapestTwoFree ==
    (Priced /\ Len(last_priced.prices) >= 5) =>
        /\ last_priced.addr \in DOMAIN quotes_to_pay_per_addr
        /\ LET e == quotes_to_pay_per_addr[last_priced.addr]
               chosen == {e[i].peer : i \in DOMAIN e}
               free == {e[1].peer, e[2].peer}
           IN /\ Len(e) = 5
              /\ Cardinality(chosen) = 5
              /\ chosen \subseteq PricedPeers
              /\ \A p \in chosen, q \in PricedPeers \ chosen : FacePrice(p) <= FacePrice(q)
              /\ \A f \in free, p \in chosen \ free : FacePrice(f) <= FacePrice(p)
              /\ e[1].price = 0 /\ e[2].price = 0
              /\ \A i \in 3..5 : e[i].price = FacePrice(e[i].peer)
              /\ QuoteForAddressPrice(e) =
                    FacePrice(e[3].peer) + FacePrice(e[4].peer) + FacePrice(e[5].peer)

C7_Witness ==
    /\ pay_pc = "wait_lock"
    /\ Len(last_priced.prices) > 5
    /\ last_priced.prices[1].price > last_priced.prices[2].price
    /\ last_priced.prices[2].price > last_priced.prices[Len(last_priced.prices)].price
    /\ last_priced.addr \in DOMAIN quotes_to_pay_per_addr

\* the priced quotes with the responses i and j arrived the other way round
ArrivedSwapped(prices, i, j) ==
    [k \in DOMAIN prices |->
        IF k = i THEN prices[j] ELSE IF k = j THEN prices[i] ELSE prices[k]]

\* the entries chosen for priced quotes that arrived in this order, each with
\* the amount charged to it
SelectedOf(content_addr, prices) ==
    LET chosen == choose_five(content_addr, sort_by_price(prices)) IN
    {chosen.entries[i] : i \in DOMAIN chosen.entries}

\* C38: the entries selected for an address and the amount charged to each
\* depend on the set of priced quotes only: the same (peer, price) entries
\* arrived in another order give the same selection, equal prices included.
C38_SelectionIndependentOfArrival ==
    Priced =>
        \A i, j \in DOMAIN last_priced.prices :
            SelectedOf(last_priced.addr, ArrivedSwapped(last_priced.prices, i, j))
                = SelectedOf(last_priced.addr, last_priced.prices)

\* the addresses of this call that are not taken to be paid already and came
\* back with fewer than 5 quotes, so that fewer than 5 can be priced
TooFewQuoted ==
    {raw_quotes_per_addr[i].addr : i \in
        {j \in DOMAIN raw_quotes_per_addr :
            /\ 2 * Len(raw_quotes_per_addr[j].peers) > CLOSE_GROUP_SIZE
            /\ Len(raw_quotes_per_addr[j].peers) < 5}}

\* C8: when an address that is not taken to be paid already has fewer than 5
\* priced quotes, the call fails, with NotEnoughNodeQuotes for that address
\* once the loop has priced it: no StoreQuote is returned, the wallet is not
\* locked, no payment is handed to the wallet and no receipt is returned.
C8_TooFewQuotesNothingPaid ==
    /\ (Priced /\ Len(last_priced.prices) < 5) =>
          /\ pay_pc = "failed"
          /\ pay_result = NotEnoughNodeQuotes(last_priced.addr, Len(last_priced.prices),
                                              MINIMUM_QUOTES_TO_PAY)
    /\ ((Priced /\ Len(last_priced.prices) < 5) \/ TooFewQuoted # {}) =>
          /\ pay_pc \in {"choosing", "failed"}
          /\ pay_result # PayOk
          /\ ~wallet_locked
          /\ payments = {}
          /\ receipt = EmptyMap

C8_Witness ==
    /\ pay_result.kind = "NotEnoughNodeQuotes"
    /\ pay_result.addr = "x2"
    /\ "x1" \in DOMAIN quotes_to_pay_per_addr
    /\ payments = {}

\* the addresses of this call that came back with at most CLOSE_GROUP_SIZE / 2 quotes
Skipped ==
    {raw_quotes_per_addr[i].addr : i \in
        {j \in DOMAIN raw_quotes_per_addr :
            2 * Len(raw_quotes_per_addr[j].peers) <= CLOSE_GROUP_SIZE}}

\* C9: an address with at most CLOSE_GROUP_SIZE / 2 quoting peers is skipped
\* without error: it is not in the StoreQuote, not in the payments, not in
\* the receipt, no error names it, a call that ends well returns a receipt
\* for exactly the other addresses, and over all calls no payment is made
\* for an address that was skipped every time.
C9_AlreadyPaidSkipped ==
    /\ \A a \in Skipped :
          /\ a \notin DOMAIN quotes_to_pay_per_addr
          /\ a \notin DOMAIN receipt
          /\ \A p \in payments : p.addr # a
          /\ pay_result.kind \in {"NotEnoughNodeQuotes", "CouldNotGetStoreQuote"}
                => pay_result.addr # a
    /\ pay_pc = "done" => DOMAIN receipt = Requested \ Skipped
    /\ paid_for \subseteq ever_quoted

C9_Witness ==
    /\ pay_pc = "done"
    /\ calls = 2
    /\ Skipped = {"x1"}
    /\ "x1" \notin ever_quoted
    /\ "x2" \in DOMAIN receipt
    /\ receipt["x2"].price > 0

\* C22: in pay the wallet lock is held only across the payment call: it is
\* not held while quotes are fetched and chosen or while pay waits for the
\* lock, and it is not held once pay has returned, with the receipt or with
\* an error, which is when the records are uploaded.
C22_LockOnlyAcrossPayment ==
    /\ wallet_locked <=> pay_pc = "paying"
    /\ pay_pc \in {"fetching", "choosing", "wait_lock"} => ~wallet_locked
    /\ pay_result # NoResult => ~wallet_locked

C22_Witness ==
    /\ pay_pc = "done"
    /\ pay_result = PayOk
    /\ payments # {}
    /\ ~wallet_locked

\* C36: a failure of quoting or of the payment aborts data_put before any
\* upload: when get_store_quotes fails, pay returns the error without the
\* wallet lock taken or a payment executed, and when pay has failed, of
\* quoting or of the payment, data_put returns the error with no put issued.
C36_FailureAbortsBeforeUpload ==
    /\ (pay_result # NoResult /\ pay_result # PayOk /\ pay_result # EvmWalletError)
        => /\ pay_pc = "failed"
           /\ ~wallet_locked
           /\ payments = {}
    /\ pay_pc \in {"wait_lock", "paying"} => pay_result = NoResult
    /\ pay_pc = "failed" => /\ puts = {}
                           /\ up_pc \in {"paying", "pay_failed"}
    /\ up_pc = "pay_failed" => pay_pc = "failed"

C36_Witness ==
    /\ up_pc = "pay_failed"
    /\ pay_result = MarketPriceError
    /\ fetch = [a \in Addrs |-> NoFetch]

C36_WitnessPayment ==
    /\ up_pc = "pay_failed"
    /\ pay_result = EvmWalletError
    /\ payments # {}

----------------------------------------------------------------------------
(* Chunk upload: properties *)

\* C6: every record put by data_put is the record of a chunk that has a proof
\* in the receipt of the payment step, carries that proof and goes to exactly
\* the payees of that proof; nothing is put while the payment step has not
\* returned a receipt, or after it failed.
C6_PutsArePaymentGated ==
    /\ \A p \in puts :
          /\ p.addr \in DOMAIN up_receipt
          /\ p.proof = up_receipt[p.addr]
          /\ p.targets = up_receipt[p.addr].payees
          /\ p.targets # {}
    /\ \A c \in Chunks : put_count[c] > 0 => c \in DOMAIN up_receipt
    /\ up_pc \in {"paying", "pay_failed"} =>
          (puts = {} /\ started = {} /\ \A c \in Chunks : put_count[c] = 0)

C6_Witness ==
    /\ up_pc = "done"
    /\ puts # {}
    /\ \E c \in Chunks : c \notin DOMAIN up_receipt
    /\ \E c \in DOMAIN up_receipt : up_receipt[c].payees = {}

\* every chunk has a proof with payees in the receipt
AllInReceipt ==
    \A c \in Chunks : c \in DOMAIN up_receipt /\ up_receipt[c].payees # {}

\* the upload has returned and every put that was made has failed
AllPutsFailed == up_pc = "done" /\ AllInReceipt /\ ever_ok = {}

\* every chunk is once in the returned list of failed uploads
AllReportedFailed ==
    /\ Len(failed_uploads) = NumChunks
    /\ {failed_uploads[i].chunk : i \in DOMAIN failed_uploads} = Chunks

\* C10 as stated: when all N records are in the receipt and every put fails,
\* the upload returns with RETRY_ATTEMPTS = 3 puts made per record and all N
\* records reported as failed.
C10_ThreePutsPerRecord ==
    AllPutsFailed =>
        /\ \A c \in Chunks : put_count[c] = RETRY_ATTEMPTS
        /\ AllReportedFailed

\* C10 amended: when all N records are in the receipt and every put fails,
\* the upload returns after the first attempt and RETRY_ATTEMPTS retries,
\* that is with RETRY_ATTEMPTS + 1 = 4 puts made per record, and all N records
\* reported as failed; no run makes more than RETRY_ATTEMPTS + 1 attempts or
\* more than RETRY_ATTEMPTS + 1 puts of a record.
C10_InitialPutAndThreeRetries ==
    /\ AllPutsFailed =>
          /\ \A c \in Chunks : put_count[c] = RETRY_ATTEMPTS + 1
          /\ current_attempt = RETRY_ATTEMPTS + 1
          /\ AllReportedFailed
    /\ current_attempt <= RETRY_ATTEMPTS + 1
    /\ \A c \in Chunks : put_count[c] <= RETRY_ATTEMPTS + 1

C10_Witness ==
    /\ AllPutsFailed
    /\ AllReportedFailed
    /\ \A c \in Chunks : put_count[c] > 1

\* the chunks whose first put failed and whose second put succeeded
FailedThenOk ==
    {c \in Chunks : /\ Len(task_log[c]) >= 2
                    /\ task_log[c][1] = NetworkError
                    /\ task_log[c][2] = TaskOk}

\* the chunks whose first put succeeded
OkFirstTime ==
    {c \in Chunks : Len(task_log[c]) >= 1 /\ task_log[c][1] = TaskOk}

\* C11: when some records fail on the first attempt and succeed on the
\* second and every other uploaded record succeeds first time, the upload
\* returns an empty failure list after two attempts; the records that failed
\* first are put exactly twice and the records that succeeded first time
\* exactly once, and a record whose put has succeeded is never put again.
C11_RetryOnlyTheFailed ==
    /\ (/\ up_pc = "done"
        /\ FailedThenOk # {}
        /\ FailedThenOk \cup OkFirstTime = DOMAIN up_receipt)
        => /\ failed_uploads = <<>>
           /\ current_attempt = 2
    /\ \A c \in FailedThenOk : put_count[c] = 2
    /\ \A c \in OkFirstTime : put_count[c] = 1
    /\ \A c \in ever_ok :
          /\ put_count[c] = Len(task_log[c])
          /\ task_log[c][Len(task_log[c])] = TaskOk
          /\ \A i \in 1..(Len(task_log[c]) - 1) : task_log[c][i] # TaskOk

C11_Witness ==
    /\ up_pc = "done"
    /\ FailedThenOk # {}
    /\ OkFirstTime # {}
    /\ FailedThenOk \cup OkFirstTime = Chunks
    /\ failed_uploads = <<>>

\* the chunks in the returned list of failed uploads
Returned == {failed_uploads[i].chunk : i \in DOMAIN failed_uploads}

\* the chunks that had a task in the last attempt executed and failed in it
FailedInLastAttempt ==
    {c \in Chunks : /\ Len(task_log[c]) = current_attempt
                    /\ task_log[c][current_attempt] # TaskOk}

\* C12: the list upload_chunks_with_retries returns holds exactly the records
\* that failed in the last attempt executed, each once and with the error of
\* that attempt; these are the records of the receipt of which no attempt
\* succeeded, so the list never holds a record whose put succeeded in some
\* attempt or a record that was skipped for want of a proof in the receipt.
C12_ExactlyTheLastFailures ==
    up_pc = "done" =>
        /\ Returned = FailedInLastAttempt
        /\ Len(failed_uploads) = Cardinality(Returned)
        /\ \A i \in DOMAIN failed_uploads :
              /\ failed_uploads[i].err \in {PayeesMissing, NetworkError}
              /\ failed_uploads[i].err = task_log[failed_uploads[i].chunk][current_attempt]
        /\ Returned = {c \in DOMAIN up_receipt :
                          \A i \in DOMAIN task_log[c] : task_log[c][i] # TaskOk}
        /\ Returned \cap ever_ok = {}
        /\ Returned \subseteq DOMAIN up_receipt

C12_Witness ==
    /\ up_pc = "done"
    /\ failed_uploads # <<>>
    /\ ever_ok # {}
    /\ \E c \in Chunks : c \notin DOMAIN up_receipt
    /\ \E c \in ever_ok : Len(task_log[c]) > 1

\* the chunks of the call that have no proof in the receipt
NoProof == Chunks \ DOMAIN up_receipt

\* C25: a record whose key is not in the receipt is put to the network in no
\* attempt, has no upload task and is not in the returned list of failures;
\* when no record has a key in the receipt the call returns the empty list
\* and no put was issued.
C25_SkippedNeverPutNorFailed ==
    up_pc \in {"uploading", "done"}
    => /\ \A c \in NoProof :
             /\ put_count[c] = 0
             /\ \A p \in puts : p.addr # c
             /\ task_log[c] = <<>>
             /\ c \notin futures \cup started
             /\ \A i \in DOMAIN failed_uploads : failed_uploads[i].chunk # c
       /\ NoProof = Chunks
             => /\ up_pc = "done"
                /\ failed_uploads = <<>>
                /\ puts = {}

C25_Witness ==
    /\ up_pc = "done"
    /\ NoProof # {}
    /\ NoProof # Chunks
    /\ failed_uploads # <<>>
    /\ current_attempt > RETRY_ATTEMPTS

\* C26: while process_tasks_with_max_concurrency runs with batch size
\* BatchSize (at least 1), the puts in flight are never more than BatchSize,
\* and neither are the futures in the set, however many tasks there are and
\* in whatever order the puts complete.
C26_InFlightAtMostBatchSize ==
    /\ Cardinality(in_flight) <= BatchSize
    /\ Cardinality(futures) <= BatchSize
    /\ started \subseteq futures

C26_Witness ==
    /\ up_pc = "uploading"
    /\ Cardinality(in_flight) = BatchSize
    /\ upload_tasks # <<>>

\* C27: every put in flight is a put of the current attempt: an attempt
\* starts its puts only when every put of the attempt before has finished.
C27_RetryAfterWholeBatch ==
    /\ \A p \in in_flight : p.attempt = current_attempt
    /\ {p.chunk : p \in in_flight} = started

C27_Witness ==
    /\ up_pc = "uploading"
    /\ current_attempt = 2
    /\ in_flight # {}
    /\ \E c \in Chunks : task_log[c] = <<TaskOk>>
    /\ \E c \in Chunks : task_log[c] = <<NetworkError>> /\ c \in started

----------------------------------------------------------------------------
(* Concurrent payments: properties *)

\* the callers that are executing wallet.pay_for_quotes
Paying == {p \in Payers : payer_pc[p] = "paying"}

\* C13: of the concurrent calls of pay on one wallet at most one is executing
\* pay_for_quotes at any time, and the one that is holds the lock guard.
C13_PaymentSerialized ==
    /\ Cardinality(Paying) <= 1
    /\ \A p \in Paying : wallet_holder = p

C13_Witness ==
    /\ Cardinality(Paying) = 1
    /\ Cardinality({p \in Payers : payer_pc[p] = "wait_lock"}) >= 2
    /\ \E p \in Payers : payer_calls[p] = 2 /\ payer_pc[p] = "wait_lock"

\* the callers that wait for the wallet lock
Waiting == {p \in Payers : payer_pc[p] = "wait_lock"}

\* C37: a call of pay whose payment failed has released the wallet lock when
\* it returns the error: the lock is never held by a caller that is not
\* executing the payment, so whenever callers wait and none is paying the
\* lock is free for them to take.
C37_FailedPaymentReleasesLock ==
    /\ \A p \in Payers : payer_result[p] = EvmWalletError => wallet_holder # p
    /\ ~lock_is_free(wallet_holder) => wallet_holder \in Paying
    /\ (Waiting # {} /\ Paying = {}) => lock_is_free(wallet_holder)

C37_Witness ==
    \E p, q \in Payers :
        /\ p # q
        /\ payer_result[p] = EvmWalletError
        /\ payer_pc[p] = "failed"
        /\ wallet_holder = q
        /\ payer_calls[q] = 1

----------------------------------------------------------------------------
(* linked_list_put: properties *)

\* C14: a linked_list_put whose payment step returned a receipt without the
\* address, the address having been skipped as already paid, fails with
\* LinkedListAlreadyExists for that address and sends no put, so what the
\* network stores at the address is what it stored before the call.
C14_AlreadyExistsWithoutPut ==
    (/\ ll_pc \notin {"idle", "paying"}
     /\ pay_pc = "done"
     /\ LinkedListAddress \notin DOMAIN receipt)
    => /\ LinkedListAddress \in Skipped
       /\ ll_pc = "failed"
       /\ ll_result = LinkedListAlreadyExists(LinkedListAddress)
       /\ ll_puts = {}
       /\ ll_stored = ll_stored_pre

C14_Witness ==
    /\ calls = 2
    /\ ll_stored = <<1>>
    /\ pay_pc = "done"
    /\ LinkedListAddress \in Skipped
    /\ ll_result = LinkedListAlreadyExists("x1")

----------------------------------------------------------------------------
(* Connect: properties *)

\* the connect phase has delivered its one outcome
ConnectResolved == ~cn_running /\ Len(cn_outcomes) = 1

\* at most one outcome, delivered when the loop ends and within the timeout;
\* success only after a PeerAdded with 1 peer in local mode and
\* CLOSE_GROUP_SIZE peers otherwise, a timeout error only when the timer
\* ticks without such an event
ConnectOutcomeRight ==
    /\ Len(cn_outcomes) <= 1
    /\ cn_running => cn_outcomes = <<>>
    /\ ~cn_running => Len(cn_outcomes) = 1
    /\ \A i \in DOMAIN cn_outcomes :
          LET o == cn_outcomes[i] IN
          /\ o.at <= CONNECT_TIMEOUT_SECS
          /\ o.res.kind \in {"Ok", "TimedOut", "TimedOutWithIncompatibleProtocol"}
          /\ o.res = ConnectOk <=>
                cn_max_peers >= (IF cn_local THEN 1 ELSE CLOSE_GROUP_SIZE)
          /\ o.res # ConnectOk => o.at = CONNECT_TIMEOUT_SECS

\* C15: the connect phase delivers exactly one outcome, within the connect
\* timeout: success when a PeerAdded event reports the required number of
\* peers (1 in local mode, the close-group size otherwise) before the timer
\* ticks, else TimedOut or TimedOutWithIncompatibleProtocol when the timer
\* ticks; it never delivers two outcomes and it always delivers one.
C15_ConnectResolvesOnce == []ConnectOutcomeRight /\ <>ConnectResolved

C15_Witness ==
    /\ ~cn_local
    /\ cn_events >= 2
    /\ Len(cn_outcomes) = 1
    /\ cn_outcomes[1].res = ConnectOk
    /\ cn_outcomes[1].at < CONNECT_TIMEOUT_SECS
    /\ cn_outcomes[1].at > 0

----------------------------------------------------------------------------
(* Client mode: properties *)

\* C16: can_write() is true exactly when wallet() is present;
\* upgrade_to_read_write on a read-only client succeeds and makes it
\* read-write with the given wallet, on a read-write client it returns an
\* error and leaves mode and wallet as they were; no call takes a read-write
\* client back to read-only or changes its wallet.
C16_ModeIsOneWay ==
    /\ can_write(cm_mode) <=> wallet(cm_mode).some
    /\ cm_mode.kind = "ReadWrite" <=> wallet(cm_mode) = Some(cm_mode.wallet)
    /\ (cm_last.op = "upgrade_to_read_write" /\ cm_last.pre_mode.kind = "ReadOnly")
          => (cm_last.res = Ok /\ cm_mode = ReadWrite(cm_last.arg))
    /\ (cm_last.op = "upgrade_to_read_write" /\ cm_last.pre_mode.kind = "ReadWrite")
          => (cm_last.res = AlreadyReadWrite /\ cm_mode = cm_last.pre_mode)
    /\ cm_last.pre_mode.kind = "ReadWrite" => cm_mode = cm_last.pre_mode

C16_Witness ==
    /\ cm_last.op = "upgrade_to_read_write"
    /\ cm_last.pre_mode.kind = "ReadWrite"
    /\ cm_last.arg # cm_last.pre_mode.wallet
    /\ cm_last.res = AlreadyReadWrite
    /\ cm_mode = cm_last.pre_mode

----------------------------------------------------------------------------
(* Concurrent spend requests: properties *)

\* both requests of the pair are answered
BothAnswered == \A i \in Reqs : nd_pc[i] = "done"

\* what the two directories and the two results are after the calls of the
\* requests x and y, run one after the other from the state the pair found
SerialOutcome(x, y) ==
    LET o1 == try_add(nd_pre.valid, nd_pre.double,
                      nd_reqs[x].spend, nd_reqs[x].w, nd_reqs[x].r)
        o2 == try_add(o1.valid, o1.double,
                      nd_reqs[y].spend, nd_reqs[y].w, nd_reqs[y].r)
    IN [valid |-> o2.valid, double |-> o2.double,
        res |-> [i \in Reqs |-> IF i = x THEN o1.res ELSE o2.res]]

Outcome == [valid |-> valid_spends, double |-> double_spends, res |-> nd_res]

\* the two calls never overlap, and what they leave and return is what they
\* leave and return in one of the two orders
TryAddsSerialized ==
    /\ Cardinality({i \in Reqs : nd_pc[i] = "store"}) <= 1
    /\ BothAnswered => Outcome \in {SerialOutcome(1, 2), SerialOutcome(2, 1)}

----------------------------------------------------------------------------
(* fetch_store_quote_with_retries: properties *)

\* the call for the address has returned
FetchReturned(a) == fq_result[a] # NoResult

\* the i-th fetch_store_quote of the address returned fewer quotes than the
\* close group size
ShortAt(a, i) == fq_log[a][i].ok /\ fq_log[a][i].n < CLOSE_GROUP_SIZE

\* every fetch_store_quote of the address ended in a network error
AllNetworkErrors(a) == \A i \in DOMAIN fq_log[a] : ~fq_log[a][i].ok

\* C23: a fetch that returns fewer quotes than the close group size is
\* followed by another attempt while the budget of three attempts lasts, the
\* call fails with CouldNotGetStoreQuote when every attempt was short, and a
\* set of fewer quotes than the close group size is never returned as Ok.
C23_ShortQuoteSetNeverOk ==
    \A a \in Addrs :
        /\ fq_result[a].kind = "Ok" => fq_result[a].quotes >= CLOSE_GROUP_SIZE
        /\ \A i \in DOMAIN fq_log[a] :
              (ShortAt(a, i) /\ i < 3 /\ i = Len(fq_log[a])) => ~FetchReturned(a)
        /\ (FetchReturned(a) /\ \A i \in DOMAIN fq_log[a] : ShortAt(a, i))
              => fq_result[a] = CouldNotGetStoreQuote(a)

\* what holds of the attempts in every state
AttemptsBounded ==
    \A a \in Addrs :
        /\ Len(fq_log[a]) <= 3
        /\ FetchReturned(a) => fq_sleeps[a] = Len(fq_log[a]) - 1
        /\ ~FetchReturned(a) => fq_sleeps[a] = Len(fq_log[a])
        /\ (FetchReturned(a) /\ AllNetworkErrors(a))
              => /\ fq_result[a] = CouldNotGetStoreQuote(a)
                 /\ Len(fq_log[a]) = 3
                 /\ fq_sleeps[a] = 2

AllFetchesReturned == \A a \in Addrs : FetchReturned(a)

\* C24: fetch_store_quote_with_retries calls fetch_store_quote at most three
\* times for an address and returns; when every call ended in a network
\* error it returns CouldNotGetStoreQuote after exactly three calls; there
\* is one sleep between two consecutive calls and none after the last.
C24_ThreeAttemptsThenStop == []AttemptsBounded /\ <>AllFetchesReturned

C24_Witness ==
    \E a \in Addrs :
        /\ FetchReturned(a)
        /\ AllNetworkErrors(a)
        /\ Len(fq_log[a]) = 3
        /\ fq_sleeps[a] = 2
        /\ fq_result[a] = CouldNotGetStoreQuote(a)

----------------------------------------------------------------------------
(* Replication fetch: properties *)

\* the holder of the key did not give the record: the request failed, the
\* holder answered with an error, or the response was of another kind
HolderFailed(i) ==
    rp_holder[i].kind \in {"SendRequestErr", "GetReplicatedRecordErr", "OtherResponse"}

\* C28: the first request for a key goes to its named holder; a query to the
\* network is made only when the holder request failed, returned an error or
\* returned another response, it is made once, with quorum One and no retry;
\* when the holder returned the record there is no query to the network.
C28_HolderFirstThenNetwork ==
    \A i \in Keys :
        /\ Len(rp_sent[i]) <= 2
        /\ rp_sent[i] # <<>>
              => /\ rp_sent[i][1].req = "GetReplicatedRecord"
                 /\ rp_sent[i][1].to = keys_to_fetch[i].holder
                 /\ rp_sent[i][1].key = keys_to_fetch[i].key
        /\ Len(rp_sent[i]) = 2
              => /\ HolderFailed(i)
                 /\ rp_sent[i][2].req = "get_record_from_network"
                 /\ rp_sent[i][2].key = keys_to_fetch[i].key
                 /\ rp_sent[i][2].get_quorum = "One"
                 /\ rp_sent[i][2].retry_strategy = "None"
        /\ HolderFailed(i) => Len(rp_sent[i]) = 2
        /\ rp_holder[i].kind = "GetReplicatedRecordOk"
              => /\ Len(rp_sent[i]) = 1
                 /\ rp_net[i] = NoResponse

C28_Witness ==
    \E i, j \in Keys :
        /\ rp_holder[i].kind = "GetReplicatedRecordOk"
        /\ rp_pc[i] = "ended"
        /\ Len(rp_sent[i]) = 1
        /\ rp_holder[j].kind = "GetReplicatedRecordErr"
        /\ Len(rp_sent[j]) = 2
        /\ rp_net[j].kind = "Ok"

\* C29: when the network fetch for a key ends with a double spend attempt,
\* the spends are made into a spend record under that key and the record is
\* handed to the local store, and the task does not end with an error; when
\* it ends with another error, no record is made or stored for the key.
C29_DoubleSpendStoredAsData ==
    \A i \in Keys :
        /\ rp_net[i].kind = "DoubleSpendAttempt"
              => /\ rp_record[i] = RecordNew(keys_to_fetch[i].key,
                                             <<"Spend", rp_net[i].spends>>)
                 /\ rp_pc[i] \in {"storing", "ended", "ended_unstored"}
                 /\ rp_task[i] # TaskReturnedErr
                 /\ rp_pc[i] = "ended" => rp_store[keys_to_fetch[i].key] = rp_record[i]
        /\ rp_net[i].kind = "OtherError"
              => /\ rp_record[i] = NoRecord
                 /\ rp_store[keys_to_fetch[i].key] = NoRecord
                 /\ rp_pc[i] = "ended"

C29_Witness ==
    \E i \in Keys :
        /\ rp_net[i].kind = "DoubleSpendAttempt"
        /\ rp_pc[i] = "ended"
        /\ rp_task[i] = TaskReturnedOk
        /\ rp_store[keys_to_fetch[i].key].value = <<"Spend", rp_net[i].spends>>

\* the task of the key got a record, from the holder or from the network
Fetched(i) ==
    \/ rp_holder[i].kind = "GetReplicatedRecordOk"
    \/ rp_net[i].kind \in {"Ok", "DoubleSpendAttempt"}

TaskEnded(i) == rp_pc[i] \in {"ended", "ended_unstored"}

\* the call returns nothing but Ok, with a task spawned for every key; what
\* the store holds for a key follows from the answers for that key alone
EachKeyOnItsOwn ==
    /\ rp_returned \in {NoResponse, TaskReturnedOk}
    /\ rp_returned = TaskReturnedOk => \A i \in Keys : rp_pc[i] # "none"
    /\ \A i \in Keys :
          /\ (TaskEnded(i) /\ ~Fetched(i)) => rp_store[keys_to_fetch[i].key] = NoRecord
          /\ rp_pc[i] = "ended_unstored" => rp_store[keys_to_fetch[i].key] = NoRecord
          /\ (rp_pc[i] = "ended" /\ Fetched(i))
                => rp_store[keys_to_fetch[i].key] = rp_record[i]

AllKeysAttempted ==
    /\ rp_returned = TaskReturnedOk
    /\ \A i \in Keys : TaskEnded(i) /\ rp_sent[i] # <<>>

\* C30: a fetch or a store that fails for one key does not keep the other
\* keys of the batch from being fetched and stored: the task of every key
\* runs to its end, the call returns Ok, and a key that could not be fetched
\* is left without a record in the local store.
C30_FailuresDoNotAbortBatch == []EachKeyOnItsOwn /\ <>AllKeysAttempted

C30_Witness ==
    \E i, j \in Keys :
        /\ i < j
        /\ rp_task[i] = TaskReturnedErr
        /\ rp_store[keys_to_fetch[i].key] = NoRecord
        /\ rp_pc[j] = "ended"
        /\ rp_store[keys_to_fetch[j].key] = rp_record[j]
        /\ rp_returned = TaskReturnedOk

----------------------------------------------------------------------------
(* Missing data: properties *)

\* the chunks of the response that has arrived
ResponseData == SeqToSet(md_response.data)

\* C31: a response to a missing-data request holds at most the maximum batch
\* size of records and none whose address the request listed as held; a node
\* that has gained more chunks than one batch holds has asked more than once.
C31_BatchCappedAndOnlyMissing ==
    /\ md_response.kind = "data" =>
          /\ Len(md_response.data) <= MaxReplicationBatch
          /\ ResponseData \cap md_request.existing_data = {}
          /\ ResponseData \subseteq md_held
    /\ Cardinality(md_have \ md_start) > MaxReplicationBatch => md_rounds >= 2

C31_Witness ==
    /\ md_pc = "done"
    /\ Cardinality(md_have \ md_start) > MaxReplicationBatch
    /\ md_request.existing_data = md_held
    /\ md_rounds = 3

\* an empty batch ends the exchange with Ok(())
StopsAtEmptyBatch ==
    (md_pc = "answered" /\ md_response = MissingDataOk(<<>>))
        => (md_pc' = "done" /\ md_result' = Ok)

\* C39: ask_for_missing_data stops at the first empty batch, and against a
\* peer that holds finitely many chunks the exchange ends after finitely
\* many rounds, also when storing a received chunk fails.
C39_ExchangeTerminates ==
    /\ [][StopsAtEmptyBatch]_vars
    /\ <>(md_pc \in {"done", "failed"})

----------------------------------------------------------------------------
(* Spend command and spend events: properties *)

\* C32: a spend command that ends in DoubleSpendAttempt returns that error
\* with both spends and sends a DoubleSpendAttempted event with the same two
\* spends to the closest peers; a peer that has handled such an event, its
\* disk doing what it is asked, has the id recorded as a double spend,
\* whatever it held for the id before.
C32_DoubleSpendAnnounced ==
    /\ (se_last.op = "cmd" /\ se_last.res.kind = "DoubleSpendAttempt")
        => /\ se_last.sent
           /\ se_last.event =
                 DoubleSpendAttempted(se_last.res.new, se_last.res.existing)
           /\ se_last.res.new # se_last.res.existing
    /\ (se_last.op = "event" /\ se_last.event.kind = "DoubleSpendAttempted"
            /\ se_last.w = "ok")
        => is_unspendable(se_peer.double, se_last.event.new.id)

----------------------------------------------------------------------------
(* get_spend: properties *)

\* the number of successful responses of the expected type that carry s
ReportsOf(s) ==
    Cardinality({i \in DOMAIN gs_responses :
                    gs_responses[i] = GetDbcSpendResponse(OkSpend(s))})

\* C33: get_spend returns a spend only when at least a close-group majority
\* of the responses are successful responses with that same spend; a spend
\* that fewer peers reported is never returned, and in every other case the
\* call returns an error.
C33_SpendOnlyByMajority ==
    gs_pc = "returned" =>
        /\ \A s \in ReportedSpends :
              /\ gs_result = OkSpend(s) => ReportsOf(s) >= close_group_majority
              /\ ReportsOf(s) < close_group_majority => gs_result # OkSpend(s)
        /\ (\A s \in ReportedSpends : ReportsOf(s) < close_group_majority)
              => gs_result.kind \in {"SpendNotFound", "Network", "UnexpectedResponses"}
        /\ gs_result.kind \in {"OkSpend", "SpendNotFound", "Network", "UnexpectedResponses"}

C33_Witness ==
    /\ gs_pc = "returned"
    /\ gs_result.kind = "SpendNotFound"
    /\ Len(ok_spends(gs_responses)) >= close_group_majority
    /\ \E s \in ReportedSpends : ReportsOf(s) = close_group_majority - 1

C33_WitnessReturned ==
    /\ gs_pc = "returned"
    /\ gs_result.kind = "OkSpend"
    /\ \E s \in ReportedSpends : ReportsOf(s) = 1 /\ gs_result # OkSpend(s)

----------------------------------------------------------------------------
(* Replication of a fresh record: properties *)

\* C40: Cmd::Replicate is sent only after the local store has returned the
\* record; a task whose store never returns it ends after a bounded number
\* of polls with nothing sent; what is sent goes to at most
\* REPLICATION_PEERS_COUNT peers and never to the node itself.
C40_ReplicateOnlyStoredRecord ==
    /\ fr_sent # {} => fr_found
    /\ fr_pc \in {"polling", "sleeping"} => (~fr_found /\ fr_sent = {})
    /\ fr_polls <= fr_retry_count + 1
    /\ fr_retry_count <= 11
    /\ (fr_pc = "ended" /\ ~fr_found) => (fr_sent = {} /\ fr_polls = 12)
    /\ Cardinality(fr_sent) <= REPLICATION_PEERS_COUNT
    /\ our_peer_id \notin fr_sent
    /\ fr_sent \subseteq fr_closest

C40_Witness ==
    /\ fr_pc = "ended"
    /\ fr_found
    /\ fr_polls = 3
    /\ our_peer_id \in fr_closest
    /\ Cardinality(fr_closest) > REPLICATION_PEERS_COUNT + 1
    /\ Cardinality(fr_sent) = REPLICATION_PEERS_COUNT

C40_WitnessNeverStored ==
    /\ fr_pc = "ended"
    /\ ~fr_found
    /\ fr_polls = 12

====
